---- MODULE Spec2Model ----
(***************************************************************************)
(* A model of the lox-lexer scanning engine (lox-lexer/src/lexer.rs), its  *)
(* span accumulator (span.rs) and the tokens it produces (token.rs,        *)
(* lexeme.rs).  A character is a one-character string, a text is a         *)
(* sequence of characters, an Option is a sequence of length 0 or 1.       *)
(***************************************************************************)
EXTENDS Integers, Sequences, FiniteSets, TLC

(***************************************************************************)
(* Characters (lexer.rs 6-37)                                              *)
(***************************************************************************)
CHAR_NEWLINE == "\n"
CHAR_LEFT_PAREN == "("
CHAR_RIGHT_PAREN == ")"
CHAR_LEFT_BRACE == "{"
CHAR_RIGHT_BRACE == "}"
CHAR_COMMA == ","
CHAR_DOT == "."
CHAR_PLUS == "+"
CHAR_MINUS == "-"
CHAR_SEMICOLON == ";"
CHAR_STAR == "*"
CHAR_BANG == "!"
CHAR_EQUAL == "="
CHAR_GREATER == ">"
CHAR_LESS == "<"
CHAR_SLASH == "/"
CHAR_WHITESPACE == " "
CHAR_CARRIAGE_RETURN == "\r"
CHAR_TAB == "\t"
CHAR_DOUBLE_QUOTE == "\""
CHAR_0 == "0"
CHAR_9 == "9"
CHAR_LOWERCASE_A == "a"
CHAR_LOWERCASE_Z == "z"
CHAR_UPPERCASE_A == "A"
CHAR_UPPERCASE_Z == "Z"
CHAR_UNDERSCORE == "_"

\* The ASCII characters U+0020..U+005F and U+0061..U+007E in code-point order.
AsciiFromSpace ==
   << " ", "!", "\"", "#", "$", "%", "&", "'", "(", ")", "*", "+",
      ",", "-", ".", "/", "0", "1", "2", "3", "4", "5", "6", "7",
      "8", "9", ":", ";", "<", "=", ">", "?", "@", "A", "B", "C",
      "D", "E", "F", "G", "H", "I", "J", "K", "L", "M", "N", "O",
      "P", "Q", "R", "S", "T", "U", "V", "W", "X", "Y", "Z", "[",
      "\\", "]", "^", "_" >>

AsciiFromLowerA ==
   << "a", "b", "c", "d", "e", "f", "g", "h", "i", "j", "k", "l",
      "m", "n", "o", "p", "q", "r", "s", "t", "u", "v", "w", "x",
      "y", "z", "{", "|", "}", "~" >>

\* The code point of a character: the order Rust compares `char`s by.
OrdTable ==
   [c \in {"\t", "\n", "\r"} |->
        CASE c = "\t" -> 9 [] c = "\n" -> 10 [] c = "\r" -> 13]
   @@ [c \in {AsciiFromSpace[i] : i \in 1..Len(AsciiFromSpace)} |->
        31 + (CHOOSE i \in 1..Len(AsciiFromSpace) : AsciiFromSpace[i] = c)]
   @@ [c \in {AsciiFromLowerA[i] : i \in 1..Len(AsciiFromLowerA)} |->
        96 + (CHOOSE i \in 1..Len(AsciiFromLowerA) : AsciiFromLowerA[i] = c)]

Ord(c) == OrdTable[c]

is_whitespace(c) ==
   c = CHAR_WHITESPACE \/ c = CHAR_TAB \/ c = CHAR_CARRIAGE_RETURN

is_digit(c) == Ord(c) >= Ord(CHAR_0) /\ Ord(c) <= Ord(CHAR_9)

is_alpha(c) ==
   \/ Ord(c) >= Ord(CHAR_LOWERCASE_A) /\ Ord(c) <= Ord(CHAR_LOWERCASE_Z)
   \/ Ord(c) >= Ord(CHAR_UPPERCASE_A) /\ Ord(c) <= Ord(CHAR_UPPERCASE_Z)
   \/ c = CHAR_UNDERSCORE

is_alphanum(c) == is_alpha(c) \/ is_digit(c)

(***************************************************************************)
(* Span (span.rs)                                                          *)
(***************************************************************************)
SpanDefault ==
   [start_line |-> 1, start_col |-> 0, end_line |-> 1, end_col |-> 0]

is_one_line(s) == s.start_line = s.end_line

is_n_chars(s, n) == is_one_line(s) /\ s.end_col - s.start_col = n

is_two_chars(s) == is_n_chars(s, 2)

is_one_char(s) == is_n_chars(s, 1)

is_multi_line(s) == ~is_one_line(s)

\* incr_col_n that moves one column whatever n is.
incr_col_n_unit(s, n) == [s EXCEPT !.end_col = s.end_col + 1]

incr_col_n(s, n) == [s EXCEPT !.end_col = s.end_col + n]

\* incr_col that moves two columns.
incr_col_by_two(s) == incr_col_n(s, 2)

incr_col(s) == incr_col_n(s, 1)

\* incr_line that leaves the column where it is.
incr_line_keeping_col(s) == [s EXCEPT !.end_line = s.end_line + 1]

incr_line(s) == [s EXCEPT !.end_line = s.end_line + 1, !.end_col = 0]

\* complete that hands out the accumulator as it is after re-anchoring.
complete_returns_self(s) ==
   [ret  |-> [s EXCEPT !.start_line = s.end_line,
                       !.start_col = s.end_col,
                       !.end_col = s.end_col],
    self |-> [s EXCEPT !.start_line = s.end_line,
                       !.start_col = s.end_col,
                       !.end_col = s.end_col]]

\* complete that moves the start column but leaves the start line behind.
complete_same_line(s) ==
   [ret  |-> s,
    self |-> [s EXCEPT !.start_col = s.end_col, !.end_col = s.end_col]]

\* complete that moves the start line but leaves the start column behind.
complete_anchoring_line_only(s) ==
   [ret  |-> s,
    self |-> [s EXCEPT !.start_line = s.end_line]]

\* complete that re-anchors the end to the start.
complete_rewinding(s) ==
   [ret  |-> s,
    self |-> [s EXCEPT !.end_line = s.start_line, !.end_col = s.start_col]]

\* complete(): `ret` is the returned copy, `self` the accumulator afterwards.
complete(s) ==
   [ret  |-> s,
    self |-> [s EXCEPT !.start_line = s.end_line,
                       !.start_col = s.end_col,
                       !.end_col = s.end_col]]

(***************************************************************************)
(* Lexeme and Token (lexeme.rs, token.rs)                                  *)
(***************************************************************************)
NoText == << >>
NoValue == << >>

\* A lexeme: its variant, and the payload of the variants that carry one
\* (a text for Identifier, String, Comment, Whitespace; for Number a
\* one-element sequence holding the value).
Lexeme(kind, text, value) == [kind |-> kind, text |-> text, value |-> value]

Plain(kind) == Lexeme(kind, NoText, NoValue)

\* Token::new that takes the default span.
Token_new_default_span(l, s) == [lexeme |-> l, span |-> SpanDefault]

Token_new(l, s) == [lexeme |-> l, span |-> s]


\* Token constructors (token.rs 17-302): `tok` is the token built, `dbg` is
\* whether the constructor's debug assertion (if it has one) holds.
\* lexer.rs calls the first two new_left_parenthesis and
\* new_right_parenthesis.
Built(kind, s, ok) == [tok |-> Token_new(Plain(kind), s), dbg |-> ok]

new_left_paren(s) == Built("LeftParen", s, is_one_char(s))
new_right_paren(s) == Built("RightParen", s, is_one_char(s))
new_left_brace(s) == Built("LeftBrace", s, is_one_char(s))
new_right_brace(s) == Built("RightBrace", s, is_one_char(s))
new_comma(s) == Built("Comma", s, is_one_char(s))
new_dot(s) == Built("Dot", s, is_one_char(s))
new_plus(s) == Built("Plus", s, is_one_char(s))
new_minus(s) == Built("Minus", s, is_one_char(s))
new_semicolon(s) == Built("Semicolon", s, is_one_char(s))
new_slash(s) == Built("Slash", s, is_one_char(s))
new_star(s) == Built("Star", s, is_one_char(s))
new_bang(s) == Built("Bang", s, is_one_char(s))
new_bang_equal(s) == Built("BangEqual", s, is_two_chars(s))
new_equal(s) == Built("Equal", s, is_one_char(s))
new_equal_equal(s) == Built("EqualEqual", s, is_two_chars(s))
new_greater(s) == Built("Greater", s, is_one_char(s))
new_greater_equal(s) == Built("GreaterEqual", s, is_two_chars(s))
new_less(s) == Built("Less", s, is_one_char(s))
new_less_equal(s) == Built("LessEqual", s, is_two_chars(s))
new_newline(s) == Built("NewLine", s, TRUE)
new_eof(s) == Built("Eof", s, TRUE)

new_identifier(i, s) ==
   [tok |-> Token_new(Lexeme("Identifier", i, NoValue), s), dbg |-> TRUE]

new_string(str, s) ==
   [tok |-> Token_new(Lexeme("String", str, NoValue), s), dbg |-> TRUE]

new_number(number, s) ==
   [tok |-> Token_new(Lexeme("Number", NoText, << number >>), s), dbg |-> TRUE]

new_comment(cm, s) ==
   [tok |-> Token_new(Lexeme("Comment", cm, NoValue), s), dbg |-> TRUE]

new_whitespace(ws, s) ==
   [tok |-> Token_new(Lexeme("Whitespace", ws, NoValue), s), dbg |-> TRUE]

(***************************************************************************)
(* The keyword table (lexer.rs 39-56)                                      *)
(***************************************************************************)
\* The table with "fun" listed before "for".
KEYWORDS_unsorted ==
   << << <<"a", "n", "d">>, "And" >>,
      << <<"c", "l", "a", "s", "s">>, "Class" >>,
      << <<"e", "l", "s", "e">>, "Else" >>,
      << <<"f", "a", "l", "s", "e">>, "False" >>,
      << <<"f", "u", "n">>, "Fun" >>,
      << <<"f", "o", "r">>, "For" >>,
      << <<"i", "f">>, "If" >>,
      << <<"n", "i", "l">>, "Nil" >>,
      << <<"o", "r">>, "Or" >>,
      << <<"p", "r", "i", "n", "t">>, "Print" >>,
      << <<"r", "e", "t", "u", "r", "n">>, "Return" >>,
      << <<"s", "u", "p", "e", "r">>, "Super" >>,
      << <<"t", "h", "i", "s">>, "This" >>,
      << <<"t", "r", "u", "e">>, "True" >>,
      << <<"v", "a", "r">>, "Var" >>,
      << <<"w", "h", "i", "l", "e">>, "While" >> >>

KEYWORDS ==
   << << <<"a", "n", "d">>, "And" >>,
      << <<"c", "l", "a", "s", "s">>, "Class" >>,
      << <<"e", "l", "s", "e">>, "Else" >>,
      << <<"f", "a", "l", "s", "e">>, "False" >>,
      << <<"f", "o", "r">>, "For" >>,
      << <<"f", "u", "n">>, "Fun" >>,
      << <<"i", "f">>, "If" >>,
      << <<"n", "i", "l">>, "Nil" >>,
      << <<"o", "r">>, "Or" >>,
      << <<"p", "r", "i", "n", "t">>, "Print" >>,
      << <<"r", "e", "t", "u", "r", "n">>, "Return" >>,
      << <<"s", "u", "p", "e", "r">>, "Super" >>,
      << <<"t", "h", "i", "s">>, "This" >>,
      << <<"t", "r", "u", "e">>, "True" >>,
      << <<"v", "a", "r">>, "Var" >>,
      << <<"w", "h", "i", "l", "e">>, "While" >> >>

\* The ordering of `&str`: lexicographic by code point.
RECURSIVE str_cmp(_, _)
str_cmp(a, b) ==
   IF a = << >> /\ b = << >> THEN "Equal"
   ELSE IF a = << >> THEN "Less"
   ELSE IF b = << >> THEN "Greater"
   ELSE IF Ord(Head(a)) < Ord(Head(b)) THEN "Less"
   ELSE IF Ord(Head(a)) > Ord(Head(b)) THEN "Greater"
   ELSE str_cmp(Tail(a), Tail(b))

\* slice::binary_search_by_key over a table of (key, value) pairs, indices
\* from 0: the loop narrows [left, right) until it hits the key or is empty.
RECURSIVE binary_search_loop(_, _, _, _)
binary_search_loop(table, key, left, right) ==
   IF left >= right THEN [ok |-> FALSE, index |-> left]
   ELSE LET mid == left + ((right - left) \div 2)
            cmp == str_cmp(table[mid + 1][1], key)
        IN  IF cmp = "Less" THEN binary_search_loop(table, key, mid + 1, right)
            ELSE IF cmp = "Greater"
                 THEN binary_search_loop(table, key, left, mid)
                 ELSE [ok |-> TRUE, index |-> mid]

\* A binary search that never looks at the last entry.
binary_search_by_key_short(table, key) ==
   binary_search_loop(table, key, 0, Len(table) - 1)

binary_search_by_key(table, key) ==
   binary_search_loop(table, key, 0, Len(table))


(***************************************************************************)
(* f64::from_str on the buffers read_number builds.  A value is the        *)
(* fraction num/den in lowest terms, so "1.50" and "1.5" are one value.    *)
(***************************************************************************)
RECURSIVE Gcd(_, _)
Gcd(a, b) == IF b = 0 THEN a ELSE Gcd(b, a % b)

RECURSIVE Pow10(_)
Pow10(n) == IF n = 0 THEN 1 ELSE 10 * Pow10(n - 1)

RECURSIVE DigitsValue(_)
DigitsValue(ds) ==
   IF ds = << >> THEN 0
   ELSE 10 * DigitsValue(SubSeq(ds, 1, Len(ds) - 1))
        + (Ord(ds[Len(ds)]) - Ord(CHAR_0))

\* Ok(value) is <<value>>, Err is << >>.
f64_from_str(buffer) ==
   LET dots == {i \in 1..Len(buffer) : buffer[i] = CHAR_DOT}
       digs == {i \in 1..Len(buffer) : is_digit(buffer[i])}
   IN  IF Cardinality(digs) = 0
          \/ Cardinality(dots) > 1
          \/ Cardinality(dots) + Cardinality(digs) # Len(buffer)
       THEN << >>
       ELSE LET all == SelectSeq(buffer, is_digit)
                frac == IF dots = {} THEN 0
                        ELSE Len(buffer) - (CHOOSE i \in dots : TRUE)
                n == DigitsValue(all)
                d == Pow10(frac)
                g == Gcd(d, n)
            IN  << [num |-> n \div g, den |-> d \div g] >>

(***************************************************************************)
(* Context (lexer.rs 58-296): c is [source, span, eof_generated]; `source` *)
(* is what the peekable cursor has not consumed yet.  An operation that    *)
(* takes &mut self returns the context afterwards in `ctx` and its value   *)
(* in `val`.                                                               *)
(***************************************************************************)
Context_new(text) ==
   [source |-> text, span |-> SpanDefault, eof_generated |-> FALSE]

\* update_span that counts a newline as one more column.
update_span_no_line(c, ch) == [c EXCEPT !.span = incr_col(c.span)]

update_span(c, ch) ==
   LET s1 == incr_col(c.span)
   IN  [c EXCEPT !.span = IF ch = CHAR_NEWLINE THEN incr_line(s1) ELSE s1]

\* read_char that does not update the span.
read_char_unmeasured(c) ==
   IF c.source # << >>
   THEN [ctx |-> [c EXCEPT !.source = Tail(c.source)],
         val |-> << Head(c.source) >>]
   ELSE [ctx |-> c, val |-> << >>]

read_char(c) ==
   IF c.source # << >>
   THEN [ctx |-> update_span([c EXCEPT !.source = Tail(c.source)],
                             Head(c.source)),
         val |-> << Head(c.source) >>]
   ELSE [ctx |-> c, val |-> << >>]

\* read_char_if that consumes the peeked character whether it matches or not.
read_char_if_consuming(c, ch) ==
   IF c.source # << >>
   THEN [ctx |-> read_char(c).ctx, val |-> (ch = Head(c.source))]
   ELSE [ctx |-> c, val |-> FALSE]

read_char_if(c, ch) ==
   IF c.source # << >>
   THEN IF ch = Head(c.source)
        THEN [ctx |-> read_char(c).ctx, val |-> TRUE]
        ELSE [ctx |-> c, val |-> FALSE]
   ELSE [ctx |-> c, val |-> FALSE]

\* read_line that leaves the line end out of the buffer.
RECURSIVE read_line_loop_dropping_newline(_, _)
read_line_loop_dropping_newline(c, buffer) ==
   IF c.source = << >> THEN [ctx |-> c, val |-> buffer]
   ELSE LET ch == Head(c.source)
            c1 == [c EXCEPT !.source = Tail(c.source),
                            !.span = incr_col(c.span)]
        IN  IF ch = CHAR_NEWLINE
            THEN [ctx |-> [c1 EXCEPT !.span = incr_line(c1.span)],
                  val |-> buffer]
            ELSE read_line_loop_dropping_newline(c1, Append(buffer, ch))

\* read_line that stays on the line it started on.
RECURSIVE read_line_loop_same_line(_, _)
read_line_loop_same_line(c, buffer) ==
   IF c.source = << >> THEN [ctx |-> c, val |-> buffer]
   ELSE LET ch == Head(c.source)
            c1 == [c EXCEPT !.source = Tail(c.source),
                            !.span = incr_col(c.span)]
            b1 == Append(buffer, ch)
        IN  IF ch = CHAR_NEWLINE
            THEN [ctx |-> c1, val |-> b1]
            ELSE read_line_loop_same_line(c1, b1)

\* read_line that closes the line itself when the input ends without a newline.
RECURSIVE read_line_loop_closing_line(_, _)
read_line_loop_closing_line(c, buffer) ==
   IF c.source = << >>
   THEN [ctx |-> c, val |-> Append(buffer, CHAR_NEWLINE)]
   ELSE LET ch == Head(c.source)
            c1 == [c EXCEPT !.source = Tail(c.source),
                            !.span = incr_col(c.span)]
            b1 == Append(buffer, ch)
        IN  IF ch = CHAR_NEWLINE
            THEN [ctx |-> [c1 EXCEPT !.span = incr_line(c1.span)], val |-> b1]
            ELSE read_line_loop_closing_line(c1, b1)

RECURSIVE read_line_loop(_, _)
read_line_loop(c, buffer) ==
   IF c.source = << >> THEN [ctx |-> c, val |-> buffer]
   ELSE LET ch == Head(c.source)
            c1 == [c EXCEPT !.source = Tail(c.source),
                            !.span = incr_col(c.span)]
            b1 == Append(buffer, ch)
        IN  IF ch = CHAR_NEWLINE
            THEN [ctx |-> [c1 EXCEPT !.span = incr_line(c1.span)], val |-> b1]
            ELSE read_line_loop(c1, b1)

read_line(c) == read_line_loop(c, << >>)

\* read_ws that also takes the character that ends the run.
RECURSIVE read_ws_loop_eating_terminator(_, _)
read_ws_loop_eating_terminator(c, buffer) ==
   IF c.source # << >> /\ is_whitespace(Head(c.source))
   THEN read_ws_loop_eating_terminator(read_char(c).ctx,
                                       Append(buffer, Head(c.source)))
   ELSE [ctx |-> read_char(c).ctx, val |-> buffer]

\* read_ws that goes on over spaces only.
RECURSIVE read_ws_loop_spaces_only(_, _)
read_ws_loop_spaces_only(c, buffer) ==
   IF c.source # << >> /\ Head(c.source) = CHAR_WHITESPACE
   THEN read_ws_loop_spaces_only(read_char(c).ctx,
                                 Append(buffer, Head(c.source)))
   ELSE [ctx |-> c, val |-> buffer]

RECURSIVE read_ws_loop(_, _)
read_ws_loop(c, buffer) ==
   IF c.source # << >> /\ is_whitespace(Head(c.source))
   THEN read_ws_loop(read_char(c).ctx, Append(buffer, Head(c.source)))
   ELSE [ctx |-> c, val |-> buffer]

read_ws(c, first_ws) == read_ws_loop(c, << first_ws >>)

\* read_string that keeps the closing quote in the payload.
RECURSIVE read_string_loop_keeping_quote(_, _)
read_string_loop_keeping_quote(c, buffer) ==
   IF c.source = << >> THEN [ctx |-> c, val |-> << >>]
   ELSE LET ch == Head(c.source)
            s1 == incr_col(c.span)
            c1 == [c EXCEPT !.source = Tail(c.source),
                            !.span = IF ch = CHAR_NEWLINE
                                     THEN incr_line(s1) ELSE s1]
        IN  IF ch = CHAR_DOUBLE_QUOTE
            THEN [ctx |-> c1, val |-> << Append(buffer, ch) >>]
            ELSE read_string_loop_keeping_quote(c1, Append(buffer, ch))

\* read_string that takes the end of the input as the closing quote.
RECURSIVE read_string_loop_partial(_, _)
read_string_loop_partial(c, buffer) ==
   IF c.source = << >> THEN [ctx |-> c, val |-> << buffer >>]
   ELSE LET ch == Head(c.source)
            s1 == incr_col(c.span)
            c1 == [c EXCEPT !.source = Tail(c.source),
                            !.span = IF ch = CHAR_NEWLINE
                                     THEN incr_line(s1) ELSE s1]
        IN  IF ch = CHAR_DOUBLE_QUOTE
            THEN [ctx |-> c1, val |-> << buffer >>]
            ELSE read_string_loop_partial(c1, Append(buffer, ch))

\* Some(buffer) is <<buffer>>, None is << >>.
RECURSIVE read_string_loop(_, _)
read_string_loop(c, buffer) ==
   IF c.source = << >> THEN [ctx |-> c, val |-> << >>]
   ELSE LET ch == Head(c.source)
            s1 == incr_col(c.span)
            c1 == [c EXCEPT !.source = Tail(c.source),
                            !.span = IF ch = CHAR_NEWLINE
                                     THEN incr_line(s1) ELSE s1]
        IN  IF ch = CHAR_DOUBLE_QUOTE
            THEN [ctx |-> c1, val |-> << buffer >>]
            ELSE read_string_loop(c1, Append(buffer, ch))

read_string(c) == read_string_loop(c, << >>)

\* The two digit loops of read_number; `any` is whether a digit was read.
RECURSIVE read_digits_loop(_, _, _)
read_digits_loop(c, buffer, any) ==
   IF c.source # << >> /\ is_digit(Head(c.source))
   THEN read_digits_loop(read_char(c).ctx, Append(buffer, Head(c.source)),
                         TRUE)
   ELSE [ctx |-> c, val |-> buffer, any |-> any]

\* read_number that gives up at a dangling '.' before reading it.
read_number_peeking_dot(c, first_digit) ==
   LET lead == read_digits_loop(c, << first_digit >>, FALSE)
       c1 == lead.ctx
   IN  IF c1.source # << >> /\ Head(c1.source) = CHAR_DOT
       THEN LET c2 == read_char(c1).ctx
                rest == read_digits_loop(c2, Append(lead.val, CHAR_DOT), FALSE)
            IN  IF ~rest.any
                THEN [ctx |-> c1, val |-> << >>]
                ELSE [ctx |-> rest.ctx, val |-> f64_from_str(rest.val)]
       ELSE [ctx |-> c1, val |-> f64_from_str(lead.val)]

\* read_number that also takes a '.' that follows the fraction.
read_number_taking_next_dot(c, first_digit) ==
   LET lead == read_digits_loop(c, << first_digit >>, FALSE)
       c1 == lead.ctx
   IN  IF c1.source # << >> /\ Head(c1.source) = CHAR_DOT
       THEN LET c2 == read_char(c1).ctx
                rest == read_digits_loop(c2, Append(lead.val, CHAR_DOT), FALSE)
            IN  IF ~rest.any
                THEN [ctx |-> rest.ctx, val |-> << >>]
                ELSE [ctx |-> read_char_if(rest.ctx, CHAR_DOT).ctx,
                      val |-> f64_from_str(rest.val)]
       ELSE [ctx |-> c1, val |-> f64_from_str(lead.val)]

\* read_number that parses the leading digits only.
read_number_integer_part(c, first_digit) ==
   LET lead == read_digits_loop(c, << first_digit >>, FALSE)
       c1 == lead.ctx
   IN  IF c1.source # << >> /\ Head(c1.source) = CHAR_DOT
       THEN LET c2 == read_char(c1).ctx
                rest == read_digits_loop(c2, Append(lead.val, CHAR_DOT), FALSE)
            IN  IF ~rest.any
                THEN [ctx |-> rest.ctx, val |-> << >>]
                ELSE [ctx |-> rest.ctx, val |-> f64_from_str(lead.val)]
       ELSE [ctx |-> c1, val |-> f64_from_str(lead.val)]

\* read_number that takes a dangling '.' as the end of a whole number.
read_number_lenient(c, first_digit) ==
   LET lead == read_digits_loop(c, << first_digit >>, FALSE)
       c1 == lead.ctx
   IN  IF c1.source # << >> /\ Head(c1.source) = CHAR_DOT
       THEN LET c2 == read_char(c1).ctx
                rest == read_digits_loop(c2, Append(lead.val, CHAR_DOT), FALSE)
            IN  IF ~rest.any
                THEN [ctx |-> rest.ctx, val |-> f64_from_str(lead.val)]
                ELSE [ctx |-> rest.ctx, val |-> f64_from_str(rest.val)]
       ELSE [ctx |-> c1, val |-> f64_from_str(lead.val)]

\* Some(number) is <<number>>, None is << >>.
read_number(c, first_digit) ==
   LET lead == read_digits_loop(c, << first_digit >>, FALSE)
       c1 == lead.ctx
   IN  IF c1.source # << >> /\ Head(c1.source) = CHAR_DOT
       THEN LET c2 == read_char(c1).ctx
                rest == read_digits_loop(c2, Append(lead.val, CHAR_DOT), FALSE)
            IN  IF ~rest.any
                THEN [ctx |-> rest.ctx, val |-> << >>]
                ELSE [ctx |-> rest.ctx, val |-> f64_from_str(rest.val)]
       ELSE [ctx |-> c1, val |-> f64_from_str(lead.val)]

\* read_identifier that stops at a digit.
RECURSIVE read_identifier_loop_alpha_only(_, _)
read_identifier_loop_alpha_only(c, buffer) ==
   IF c.source # << >> /\ is_alpha(Head(c.source))
   THEN read_identifier_loop_alpha_only(read_char(c).ctx,
                                        Append(buffer, Head(c.source)))
   ELSE [ctx |-> c, val |-> buffer]

RECURSIVE read_identifier_loop(_, _)
read_identifier_loop(c, buffer) ==
   IF c.source # << >> /\ is_alphanum(Head(c.source))
   THEN read_identifier_loop(read_char(c).ctx, Append(buffer, Head(c.source)))
   ELSE [ctx |-> c, val |-> buffer]

\* read_identifier that leaves the first character out of the text.
read_identifier_dropping_first(c, first_alpha) == read_identifier_loop(c, << >>)

read_identifier(c, first_alpha) == read_identifier_loop(c, << first_alpha >>)


(***************************************************************************)
(* The token makers (lexer.rs 298-645).  What a maker (and read) gives:    *)
(*   ctx   the context afterwards,                                         *)
(*   ret   the Option<Token> returned: <<token>> or << >> (None),          *)
(*   panic << >>, or the panic that ended the call,                        *)
(*   dbg   whether every debug assertion reached held.                     *)
(***************************************************************************)
NoPanic == << >>
\* The panic message without the character.
PanicUnknownChar_unnamed(ch) == << "Unknown char" >>

PanicUnknownChar(ch) == << "Unknown char", ch >>
PanicUnwrapNone == << "unwrap on None" >>

Returned(c, built, pre) ==
   [ctx |-> c, ret |-> << built.tok >>, panic |-> NoPanic,
    dbg |-> pre /\ built.dbg]

Panicked(c, p, pre) == [ctx |-> c, ret |-> << >>, panic |-> p, dbg |-> pre]

\* The shared body without storing the re-anchored accumulator.
mk_with_keeping_span(c, pre, built) ==
   Returned(c, built, ~c.eof_generated /\ pre)

\* The body the fixed-text makers share: the assertions on entry (pre), one
\* complete(), the constructor applied to the completed span (built).
mk_with(c, pre, built) ==
   Returned([c EXCEPT !.span = complete(c.span).self], built,
            ~c.eof_generated /\ pre)

mk_left_parenthesis(c) ==
   LET s == complete(c.span)
   IN  Returned([c EXCEPT !.span = s.self], new_left_paren(s.ret),
                ~c.eof_generated /\ is_one_char(c.span) /\ is_one_char(s.ret))

mk_right_parenthesis(c) ==
   mk_with(c, is_one_char(c.span), new_right_paren(complete(c.span).ret))
mk_left_brace(c) ==
   mk_with(c, is_one_char(c.span), new_left_brace(complete(c.span).ret))
mk_right_brace(c) ==
   mk_with(c, is_one_char(c.span), new_right_brace(complete(c.span).ret))
mk_comma(c) ==
   mk_with(c, is_one_char(c.span), new_comma(complete(c.span).ret))
mk_dot(c) ==
   mk_with(c, is_one_char(c.span), new_dot(complete(c.span).ret))
\* mk_plus that builds a Minus token.
mk_plus_as_minus(c) ==
   mk_with(c, is_one_char(c.span), new_minus(complete(c.span).ret))

mk_plus(c) ==
   mk_with(c, is_one_char(c.span), new_plus(complete(c.span).ret))
mk_minus(c) ==
   mk_with(c, is_one_char(c.span), new_minus(complete(c.span).ret))
mk_semicolon(c) ==
   mk_with(c, is_one_char(c.span), new_semicolon(complete(c.span).ret))
mk_star(c) ==
   mk_with(c, is_one_char(c.span), new_star(complete(c.span).ret))

mk_bang(c) ==
   mk_with(c, is_one_char(c.span), new_bang(complete(c.span).ret))
mk_bang_equal(c) ==
   mk_with(c, is_two_chars(c.span), new_bang_equal(complete(c.span).ret))

mk_bang_or_bang_equal(c) ==
   LET r == read_char_if(c, CHAR_EQUAL)
   IN  IF r.val THEN mk_bang_equal(r.ctx) ELSE mk_bang(r.ctx)

mk_equal(c) ==
   mk_with(c, is_one_char(c.span), new_equal(complete(c.span).ret))
mk_equal_equal(c) ==
   mk_with(c, is_two_chars(c.span), new_equal_equal(complete(c.span).ret))

mk_equal_or_equal_equal(c) ==
   LET r == read_char_if(c, CHAR_EQUAL)
   IN  IF r.val THEN mk_equal_equal(r.ctx) ELSE mk_equal(r.ctx)

mk_greater(c) ==
   mk_with(c, is_one_char(c.span), new_greater(complete(c.span).ret))
mk_greater_equal(c) ==
   mk_with(c, is_two_chars(c.span), new_greater_equal(complete(c.span).ret))

mk_greater_or_greater_equal(c) ==
   LET r == read_char_if(c, CHAR_EQUAL)
   IN  IF r.val THEN mk_greater_equal(r.ctx) ELSE mk_greater(r.ctx)

mk_less(c) ==
   mk_with(c, is_one_char(c.span), new_less(complete(c.span).ret))
mk_less_equal(c) ==
   mk_with(c, is_two_chars(c.span), new_less_equal(complete(c.span).ret))

mk_less_or_less_equal(c) ==
   LET r == read_char_if(c, CHAR_EQUAL)
   IN  IF r.val THEN mk_less_equal(r.ctx) ELSE mk_less(r.ctx)

mk_slash(c) ==
   mk_with(c, is_one_char(c.span), new_slash(complete(c.span).ret))

mk_comment(c) ==
   LET line == read_line(c)
       s == complete(line.ctx.span)
   IN  Returned([line.ctx EXCEPT !.span = s.self],
                new_comment(line.val, s.ret),
                ~c.eof_generated /\ is_two_chars(c.span))

\* mk_slash_or_comment that reads the character after a lone '/'.
mk_slash_or_comment_eating_next(c) ==
   LET r == read_char_if(c, CHAR_SLASH)
   IN  IF r.val THEN mk_comment(r.ctx) ELSE mk_slash(read_char(r.ctx).ctx)

mk_slash_or_comment(c) ==
   LET r == read_char_if(c, CHAR_SLASH)
   IN  IF r.val THEN mk_comment(r.ctx) ELSE mk_slash(r.ctx)

mk_newline(c) ==
   mk_with(c, is_multi_line(c.span), new_newline(complete(c.span).ret))

mk_whitespace(c, first_char) ==
   LET ws == read_ws(c, first_char)
       s == complete(ws.ctx.span)
   IN  Returned([ws.ctx EXCEPT !.span = s.self],
                new_whitespace(ws.val, s.ret),
                ~c.eof_generated /\ is_one_char(c.span))

mk_string(c) ==
   LET string == read_string(c)
       s == complete(string.ctx.span)
       pre == ~c.eof_generated /\ is_one_char(c.span)
   IN  IF string.val = << >>
       THEN Panicked(string.ctx, PanicUnwrapNone, pre)
       ELSE Returned([string.ctx EXCEPT !.span = s.self],
                     new_string(string.val[1], s.ret), pre)

mk_number(c, first_digit) ==
   LET number == read_number(c, first_digit)
       s == complete(number.ctx.span)
       pre == ~c.eof_generated /\ is_one_char(c.span)
   IN  IF number.val = << >>
       THEN Panicked(number.ctx, PanicUnwrapNone, pre)
       ELSE Returned([number.ctx EXCEPT !.span = s.self],
                     new_number(number.val[1], s.ret), pre)

mk_identifier_or_keyword(c, first_char) ==
   LET i == read_identifier(c, first_char)
       s == complete(i.ctx.span)
       srch == binary_search_by_key(KEYWORDS, i.val)
       built == IF srch.ok
                THEN [tok |-> Token_new(Plain(KEYWORDS[srch.index + 1][2]),
                                        s.ret),
                      dbg |-> TRUE]
                ELSE new_identifier(i.val, s.ret)
   IN  Returned([i.ctx EXCEPT !.span = s.self], built,
                ~c.eof_generated /\ is_one_char(c.span))

\* mk_eof_token that counts the end of the stream as a character.
mk_eof_token_counting(c) ==
   LET s == complete(incr_col(c.span))
   IN  Returned([c EXCEPT !.eof_generated = TRUE, !.span = s.self],
                new_eof(s.ret), ~c.eof_generated)

\* mk_eof_token that forgets to mark the end of the stream.
mk_eof_token_unmarked(c) ==
   LET s == complete(c.span)
   IN  Returned([c EXCEPT !.span = s.self], new_eof(s.ret), ~c.eof_generated)

mk_eof_token(c) ==
   LET s == complete(c.span)
   IN  Returned([c EXCEPT !.eof_generated = TRUE, !.span = s.self],
                new_eof(s.ret), ~c.eof_generated)

read_token_with_char(c, ch) ==
   IF ch = CHAR_LEFT_PAREN THEN mk_left_parenthesis(c)
   ELSE IF ch = CHAR_RIGHT_PAREN THEN mk_right_parenthesis(c)
   ELSE IF ch = CHAR_LEFT_BRACE THEN mk_left_brace(c)
   ELSE IF ch = CHAR_RIGHT_BRACE THEN mk_right_brace(c)
   ELSE IF ch = CHAR_COMMA THEN mk_comma(c)
   ELSE IF ch = CHAR_DOT THEN mk_dot(c)
   ELSE IF ch = CHAR_PLUS THEN mk_plus(c)
   ELSE IF ch = CHAR_MINUS THEN mk_minus(c)
   ELSE IF ch = CHAR_SEMICOLON THEN mk_semicolon(c)
   ELSE IF ch = CHAR_STAR THEN mk_star(c)
   ELSE IF ch = CHAR_BANG THEN mk_bang_or_bang_equal(c)
   ELSE IF ch = CHAR_EQUAL THEN mk_equal_or_equal_equal(c)
   ELSE IF ch = CHAR_GREATER THEN mk_greater_or_greater_equal(c)
   ELSE IF ch = CHAR_LESS THEN mk_less_or_less_equal(c)
   ELSE IF ch = CHAR_SLASH THEN mk_slash_or_comment(c)
   ELSE IF ch = CHAR_NEWLINE THEN mk_newline(c)
   ELSE IF ch = CHAR_DOUBLE_QUOTE THEN mk_string(c)
   ELSE IF is_whitespace(ch) THEN mk_whitespace(c, ch)
   ELSE IF is_digit(ch) THEN mk_number(c, ch)
   ELSE IF is_alpha(ch) THEN mk_identifier_or_keyword(c, ch)
   ELSE Panicked(c, PanicUnknownChar(ch), TRUE)

\* read that scans a whitespace run and returns nothing for it.
read_dropping_whitespace(c) ==
   IF c.eof_generated
   THEN [ctx |-> c, ret |-> << >>, panic |-> NoPanic, dbg |-> TRUE]
   ELSE LET r == read_char(c)
        IN  IF r.val # << >>
            THEN LET t == read_token_with_char(r.ctx, r.val[1])
                 IN  IF t.ret # << >> /\ t.ret[1].lexeme.kind = "Whitespace"
                     THEN [t EXCEPT !.ret = << >>]
                     ELSE t
            ELSE mk_eof_token(r.ctx)

\* read that goes on counting columns after the Eof token.
read_advancing_after_eof(c) ==
   IF c.eof_generated
   THEN [ctx |-> [c EXCEPT !.span = incr_col(c.span)],
         ret |-> << >>, panic |-> NoPanic, dbg |-> TRUE]
   ELSE LET r == read_char(c)
        IN  IF r.val # << >>
            THEN read_token_with_char(r.ctx, r.val[1])
            ELSE mk_eof_token(r.ctx)

\* read that ends the sequence on an exhausted cursor without an Eof token.
read_without_eof(c) ==
   IF c.eof_generated
   THEN [ctx |-> c, ret |-> << >>, panic |-> NoPanic, dbg |-> TRUE]
   ELSE LET r == read_char(c)
        IN  IF r.val # << >>
            THEN read_token_with_char(r.ctx, r.val[1])
            ELSE [ctx |-> [r.ctx EXCEPT !.eof_generated = TRUE],
                  ret |-> << >>, panic |-> NoPanic, dbg |-> TRUE]

read(c) ==
   IF c.eof_generated
   THEN [ctx |-> c, ret |-> << >>, panic |-> NoPanic, dbg |-> TRUE]
   ELSE LET r == read_char(c)
        IN  IF r.val # << >>
            THEN read_token_with_char(r.ctx, r.val[1])
            ELSE mk_eof_token(r.ctx)


(***************************************************************************)
(* The inputs scanned                                                      *)
(***************************************************************************)
\* Every text of at most MaxLen characters over Alphabet,
MaxLen == 3

Alphabet ==
   {"(", ".", "!", "=", "<", ">", "/", "\n", "\"", " ", "\t", "1", "o", "r",
    "@"}

ShortTexts == UNION {[1..n -> Alphabet] : n \in 0..MaxLen}

\* every word (the keywords, texts near them, every character the dispatch
\* names, the literals) between two affixes,
KeywordTexts == {KEYWORDS[i][1] : i \in 1..Len(KEYWORDS)}

Words ==
   KeywordTexts \cup
   {
     <<"c", "l", "a", "s", "s", "i", "f", "y">>, <<"C", "l", "a", "s", "s">>,
     <<"A", "N", "D">>, <<"a", "n">>, <<"a", "n", "d", "y">>, <<"f", "o">>,
     <<"f", "o", "r", "f", "u", "n">>, <<"f", "_">>, <<"i", "f", "0">>,
     <<"i">>, <<"w", "h", "i", "l">>, <<"w", "h", "i", "l", "e", "s">>,
     <<"x">>, <<"a", "b", "c">>, <<"_">>, <<"_", "1">>, <<"Z", "9">>,
     <<"n", "u", "l">>, <<"t", "r", "u", "a">>, <<"z", "z">>, <<"a">>,
     <<"(">>, <<")">>, <<"{">>, <<"}">>, <<",">>, <<".">>, <<"+">>, <<"-">>,
     <<";">>, <<"*">>, <<"!">>, <<"=">>, <<">">>, <<"<">>, <<"\"">>, <<"/">>,
     <<" ">>, <<"\t">>, <<"\r">>, <<"\n">>, <<"0">>, <<"9">>, <<"@">>,
     <<"#">>, <<"!", "=">>, <<"=", "=">>, <<">", "=">>, <<"<", "=">>,
     <<"/", "/">>, <<"1", ".">>, <<"1", ".", "5">>, <<"1", "2">>,
     <<"1", ".", "5", "0">>, <<"0", ".", "0", "5">>, <<"9", "0">>,
     <<"\"", "a", "\"">>, <<"\"", "\n", "\"">>, <<"/", "/", "\n">>,
     <<" ", " ">>, <<"\t", "\r">>
   }

Affixes == {<< >>, <<".">>, <<" ">>, <<"\n">>, <<"=">>, <<"1">>, <<"x">>}

AffixedTexts == {pre \o w \o suf : pre \in Affixes, w \in Words, suf \in Affixes}

\* and the texts the tests and the documentation scan.
ExampleTexts ==
   {
     <<"c", "l", "a", "s", "s", "i", "f", "y">>,
     <<"/", "/", " ", "h", "i", "\n", "x">>, <<"1", "2", ".", "3">>,
     <<"1", "2", ".">>, <<"\"", "a", "b", "c">>, <<"!", "=">>, <<"!", " ">>,
     <<"v", "a", "r", " ", "l", "a", "n", "g", "u", "a", "g", "e", "=", "\n", "\"", "l", "o", "x", "\"", ";">>,
     <<"1", ".", "2", ".", "3">>, <<"1", ".", "2", ".">>,
     <<"_", "1", "2", ".", "3", "_">>, <<".", "a", "b", "c", ".">>,
     <<"_", "/", "/", "_">>, <<"_", " ", "\t", "\r", "_">>
   }

Inputs == ShortTexts \cup AffixedTexts \cup ExampleTexts

(***************************************************************************)
(* The scan: a Context over `input`, driven by calls of read()             *)
(***************************************************************************)
\* A caller may go on calling read() after it has returned None; the model
\* follows it for MaxNoneReads such calls.
MaxNoneReads == 2

VARIABLES
   constructed,    \* whether Context::new has run
   input,          \* the text given to Context::new
   source,         \* Context.source: the characters not consumed yet
   span,           \* Context.span: the accumulator
   eof_generated,  \* Context.eof_generated
   tokens,         \* history: the tokens read() has returned, in order
   last,           \* history: what the latest read() call gave (ret, panic)
   calls,          \* history: the number of read() calls made
   none_reads,     \* history: the number of read() calls that returned None
   dbg_held        \* history: every debug assertion reached so far held

vars ==
   << constructed, input, source, span, eof_generated, tokens, last, calls,
      none_reads, dbg_held >>

Ctx == [source |-> source, span |-> span, eof_generated |-> eof_generated]

\* Before the engine is constructed there is no text and no context; the
\* context fields hold what Context::new gives for the empty text.
Init ==
   /\ constructed = FALSE
   /\ input = << >>
   /\ source = << >>
   /\ span = SpanDefault
   /\ eof_generated = FALSE
   /\ tokens = << >>
   /\ last = [ret |-> << >>, panic |-> NoPanic]
   /\ calls = 0
   /\ none_reads = 0
   /\ dbg_held = TRUE

\* Context::new(text)
New(text) ==
   /\ ~constructed
   /\ constructed' = TRUE
   /\ input' = text
   /\ source' = Context_new(text).source
   /\ span' = Context_new(text).span
   /\ eof_generated' = Context_new(text).eof_generated
   /\ UNCHANGED << tokens, last, calls, none_reads, dbg_held >>

\* A call of read() is possible.
CanRead == constructed /\ last.panic = NoPanic /\ none_reads < MaxNoneReads

\* One call of read().  A panic ends the scan: no call follows it.
Read ==
   /\ CanRead
   /\ \E r \in {read(Ctx)} :
          /\ source' = r.ctx.source
          /\ span' = r.ctx.span
          /\ eof_generated' = r.ctx.eof_generated
          /\ tokens' = tokens \o r.ret
          /\ last' = [ret |-> r.ret, panic |-> r.panic]
          /\ calls' = calls + 1
          /\ none_reads' = IF r.ret = << >> /\ r.panic = NoPanic
                           THEN none_reads + 1 ELSE none_reads
          /\ dbg_held' = (dbg_held /\ r.dbg)
   /\ UNCHANGED << constructed, input >>

\* The caller constructs one engine, over any of the texts.
Construct == ~constructed /\ \E text \in Inputs : New(text)

Next ==
   \/ Construct
   \/ Read

Spec == Init /\ [][Next]_vars

\* The caller constructs the engine and keeps calling read() for as long as
\* a call is possible.  Under Next the steps that change `constructed` are
\* the New steps and the steps that change `calls` are the Read steps, and
\* Read is enabled exactly when CanRead holds, so these are weak fairness of
\* New and of Read.
FairSpec ==
   /\ Spec
   /\ WF_constructed(~constructed /\ constructed' = TRUE)
   /\ WF_calls(CanRead /\ calls' = calls + 1)

(***************************************************************************)
(* What the properties below speak of                                      *)
(***************************************************************************)
Kind(t) == t.lexeme.kind

EofCount == Cardinality({i \in 1..Len(tokens) : Kind(tokens[i]) = "Eof"})

Failed == last.panic # NoPanic

ReturnedNone == calls > 0 /\ last.ret = << >> /\ last.panic = NoPanic

StartOf(s) == << s.start_line, s.start_col >>

EndOf(s) == << s.end_line, s.end_col >>

C2_EofAtMostOnce ==
   /\ [](EofCount <= 1)
   /\ [][eof_generated =>
            /\ eof_generated'
            /\ last'.ret = << >> /\ last'.panic = NoPanic
            /\ tokens' = tokens]_vars

\* read() was called in the Done state.
C2_Witness == eof_generated /\ none_reads > 0 /\ EofCount = 1

(***************************************************************************)
(* C3.  Token spans are contiguous.                                        *)
(***************************************************************************)
\* C3: the first token's span starts at line 1, column 0, and each later
\* token's span starts at the (line, column) where the previous token's
\* span ends.
C3_SpansContiguous ==
   /\ tokens # << >> => StartOf(tokens[1].span) = << 1, 0 >>
   /\ \A i \in 2..Len(tokens) :
         StartOf(tokens[i].span) = EndOf(tokens[i - 1].span)

\* Three tokens or more, one of them across a line end.
C3_Witness ==
   /\ Len(tokens) >= 3
   /\ \E i \in 1..(Len(tokens) - 1) : is_multi_line(tokens[i].span)
   /\ tokens[Len(tokens)].span.start_col > 0


(***************************************************************************)
(* Positions in a text: line l (from 1) starts after the (l-1)-th newline, *)
(* and column c of it is c characters further, the newline that ends the   *)
(* line not being one of its columns' characters.                          *)
(***************************************************************************)
NewlinesOf(text) == {i \in 1..Len(text) : text[i] = "\n"}

LineCount(text) == Cardinality(NewlinesOf(text)) + 1

\* The number of characters before line l.
LineStart(text, l) ==
   IF l = 1 THEN 0
   ELSE CHOOSE p \in NewlinesOf(text) :
           Cardinality({q \in NewlinesOf(text) : q <= p}) = l - 1

\* The number of characters of line l, its newline left out.
LineWidth(text, l) ==
   (IF l = LineCount(text) THEN Len(text) ELSE LineStart(text, l + 1) - 1)
   - LineStart(text, l)

IsPosition(text, pos) ==
   /\ pos[1] \in 1..LineCount(text)
   /\ pos[2] \in 0..LineWidth(text, pos[1])

\* The number of characters before position pos.
Offset(text, pos) == LineStart(text, pos[1]) + pos[2]

IsExtent(text, s) ==
   /\ IsPosition(text, StartOf(s))
   /\ IsPosition(text, EndOf(s))
   /\ Offset(text, StartOf(s)) <= Offset(text, EndOf(s))

\* The text a span covers.
Covered(text, s) ==
   SubSeq(text, Offset(text, StartOf(s)) + 1, Offset(text, EndOf(s)))

RECURSIVE CoveredByAll(_, _)
CoveredByAll(text, toks) ==
   IF toks = << >> THEN << >>
   ELSE Covered(text, toks[1].span) \o CoveredByAll(text, Tail(toks))

Suffix(text, n) == SubSeq(text, Len(text) - n + 1, Len(text))

(***************************************************************************)
(* C4.  The token spans tile the input.                                    *)
(***************************************************************************)
\* C4: for every input scanned through to Eof, concatenating in order the
\* source text covered by each token's span gives back the input exactly;
\* the cursor only ever holds the part of the input not consumed yet, and
\* holds nothing at Eof.
C4_SpansReconstructInput ==
   /\ source = Suffix(input, Len(source))
   /\ eof_generated =>
         /\ source = << >>
         /\ \A i \in 1..Len(tokens) : IsExtent(input, tokens[i].span)
         /\ CoveredByAll(input, tokens) = input

\* A scan to Eof of a text of two lines or more and four tokens or more.
C4_Witness ==
   /\ eof_generated
   /\ Len(tokens) >= 4
   /\ LineCount(input) >= 2

(***************************************************************************)
(* C5.  The Eof token is empty and sits at the end.                        *)
(***************************************************************************)
\* C5: the Eof token always has a zero-width span, located at the end
\* position of the last token before it, or at line 1 column 0 when the
\* input is empty.
C5_EofZeroWidth ==
   \A i \in 1..Len(tokens) :
      Kind(tokens[i]) = "Eof" =>
         /\ StartOf(tokens[i].span) = EndOf(tokens[i].span)
         /\ IF input = << >>
            THEN i = 1 /\ StartOf(tokens[i].span) = << 1, 0 >>
            ELSE i > 1 /\ StartOf(tokens[i].span) = EndOf(tokens[i - 1].span)

\* An Eof token after a token that ends on a later line, away from column 0.
C5_Witness ==
   /\ Len(tokens) >= 2
   /\ Kind(tokens[Len(tokens)]) = "Eof"
   /\ tokens[Len(tokens)].span.start_line > 1
   /\ tokens[Len(tokens)].span.start_col > 0

(***************************************************************************)
(* C6.  No token but Eof is empty.                                         *)
(***************************************************************************)
NonEofCount == Len(tokens) - EofCount

\* C6: every non-Eof token returned by read() covers at least one input
\* character, so the number of non-Eof tokens produced is at most the
\* number of characters of the input.
C6_TokensNotEmpty ==
   /\ \A i \in 1..Len(tokens) :
         Kind(tokens[i]) # "Eof" =>
            /\ IsExtent(input, tokens[i].span)
            /\ Len(Covered(input, tokens[i].span)) >= 1
   /\ NonEofCount <= Len(input)

\* A scan that returned as many tokens as the input has characters.
C6_Witness == Len(input) >= 3 /\ NonEofCount = Len(input)


(***************************************************************************)
(* What a call of read() that starts on a given character must give        *)
(***************************************************************************)
\* read() is about to be called with ch as the next character.
ReadsFrom(chars) ==
   CanRead /\ ~eof_generated /\ source # << >> /\ Head(source) \in chars

\* The call returned a token.
GaveToken(l) == l.panic = NoPanic /\ Len(l.ret) = 1

Drop(text, n) == SubSeq(text, n + 1, Len(text))

Take(text, n) == SubSeq(text, 1, n)

Width(s) == s.end_col - s.start_col

(***************************************************************************)
(* C7.  The one-or-two character operators.                                *)
(***************************************************************************)
OperatorChars == {"!", "=", ">", "<"}

OneCharVariant(ch) ==
   CASE ch = "!" -> "Bang" [] ch = "=" -> "Equal"
     [] ch = ">" -> "Greater" [] ch = "<" -> "Less"

TwoCharVariant(ch) ==
   CASE ch = "!" -> "BangEqual" [] ch = "=" -> "EqualEqual"
     [] ch = ">" -> "GreaterEqual" [] ch = "<" -> "LessEqual"

\* C7: for each of ! = > <, when the character right after it is '=',
\* read() consumes both and returns the two-character token with a one-line
\* span of width 2; otherwise it returns the one-character token with a
\* span of width 1 and leaves the following character for the next token.
C7_OperatorMunch ==
   [][ReadsFrom(OperatorChars) =>
         /\ GaveToken(last')
         /\ is_one_line(last'.ret[1].span)
         /\ last'.ret[1].lexeme.text = NoText
         /\ IF Len(source) >= 2 /\ source[2] = "="
            THEN /\ Kind(last'.ret[1]) = TwoCharVariant(Head(source))
                 /\ Width(last'.ret[1].span) = 2
                 /\ source' = Drop(source, 2)
            ELSE /\ Kind(last'.ret[1]) = OneCharVariant(Head(source))
                 /\ Width(last'.ret[1].span) = 1
                 /\ source' = Drop(source, 1)]_vars

\* A one-character operator right before a two-character one.
C7_Witness ==
   \E i \in 1..(Len(tokens) - 1) :
      /\ Kind(tokens[i]) \in {"Bang", "Equal", "Greater", "Less"}
      /\ Kind(tokens[i + 1]) \in
            {"BangEqual", "EqualEqual", "GreaterEqual", "LessEqual"}

(***************************************************************************)
(* C8.  Identifiers and keywords take the longest run.                     *)
(***************************************************************************)
LetterChars ==
   {"a", "b", "c", "d", "e", "f", "g", "h", "i", "j", "k", "l", "m",
    "n", "o", "p", "q", "r", "s", "t", "u", "v", "w", "x", "y", "z",
    "A", "B", "C", "D", "E", "F", "G", "H", "I", "J", "K", "L", "M",
    "N", "O", "P", "Q", "R", "S", "T", "U", "V", "W", "X", "Y", "Z"}

DigitChars == {"0", "1", "2", "3", "4", "5", "6", "7", "8", "9"}

WordStartChars == LetterChars \cup {"_"}

WordChars == LetterChars \cup DigitChars \cup {"_"}

\* The length of the longest run of characters of `chars` that starts text.
RunLength(text, chars) ==
   CHOOSE n \in 0..Len(text) :
      /\ \A i \in 1..n : text[i] \in chars
      /\ n = Len(text) \/ text[n + 1] \notin chars

KeywordKinds == {KEYWORDS[i][2] : i \in 1..Len(KEYWORDS)}

Classify == <<"c", "l", "a", "s", "s", "i", "f", "y">>

\* C8: when a token starts with an ASCII letter or underscore, its text is
\* the longest run of ASCII letters, digits and underscores starting there
\* (the character after the token is not one of these); "classify" yields
\* one Identifier("classify").
C8_MaximalMunch ==
   /\ [][ReadsFrom(WordStartChars) =>
            LET n == RunLength(source, WordChars)
            IN  /\ GaveToken(last')
                /\ Kind(last'.ret[1]) \in {"Identifier"} \cup KeywordKinds
                /\ Covered(input, last'.ret[1].span) = Take(source, n)
                /\ Kind(last'.ret[1]) = "Identifier" =>
                      last'.ret[1].lexeme.text = Take(source, n)
                /\ source' = Drop(source, n)
                /\ source' = << >> \/ Head(source') \notin WordChars]_vars
   /\ [](input = Classify /\ tokens # << >> =>
            tokens[1].lexeme = Lexeme("Identifier", Classify, NoValue))

\* "classify" has been scanned to its end.
C8_Witness ==
   /\ input = Classify
   /\ Len(tokens) = 2
   /\ Kind(tokens[1]) = "Identifier"
   /\ Kind(tokens[2]) = "Eof"


(***************************************************************************)
(* C9.  Keyword or identifier.                                             *)
(***************************************************************************)
\* The sixteen keywords and the variant of each.
SixteenKeywords ==
   (<<"a", "n", "d">> :> "And")
   @@ (<<"c", "l", "a", "s", "s">> :> "Class")
   @@ (<<"e", "l", "s", "e">> :> "Else")
   @@ (<<"f", "a", "l", "s", "e">> :> "False")
   @@ (<<"f", "o", "r">> :> "For")
   @@ (<<"f", "u", "n">> :> "Fun")
   @@ (<<"i", "f">> :> "If")
   @@ (<<"n", "i", "l">> :> "Nil")
   @@ (<<"o", "r">> :> "Or")
   @@ (<<"p", "r", "i", "n", "t">> :> "Print")
   @@ (<<"r", "e", "t", "u", "r", "n">> :> "Return")
   @@ (<<"s", "u", "p", "e", "r">> :> "Super")
   @@ (<<"t", "h", "i", "s">> :> "This")
   @@ (<<"t", "r", "u", "e">> :> "True")
   @@ (<<"v", "a", "r">> :> "Var")
   @@ (<<"w", "h", "i", "l", "e">> :> "While")

\* C9: for an identifier-shaped run with text t: if t is exactly one of the
\* sixteen keywords, the token's lexeme is that keyword's own variant; for
\* every other t the lexeme is Identifier(t).
C9_KeywordOrIdentifier ==
   [][ReadsFrom(WordStartChars) =>
         LET t == Take(source, RunLength(source, WordChars))
         IN  /\ GaveToken(last')
             /\ last'.ret[1].lexeme =
                   IF t \in DOMAIN SixteenKeywords
                   THEN Plain(SixteenKeywords[t])
                   ELSE Lexeme("Identifier", t, NoValue)]_vars

\* A keyword token, and later an identifier longer than it.
C9_Witness ==
   \E i, j \in 1..Len(tokens) :
      /\ i < j
      /\ Kind(tokens[i]) = "Var"
      /\ Kind(tokens[j]) = "Identifier"
      /\ Len(tokens[j].lexeme.text) > 3

(***************************************************************************)
(* C10.  Line comments.                                                    *)
(***************************************************************************)
\* The length of the rest of the line that starts text, its newline counted.
LineLength(text) ==
   IF NewlinesOf(text) = {} THEN Len(text)
   ELSE CHOOSE p \in NewlinesOf(text) : \A q \in NewlinesOf(text) : p <= q

CommentExample == <<"/", "/", " ", "h", "i", "\n", "x">>

\* C10: when '/' is immediately followed by '/', read() returns one Comment
\* token whose payload is exactly the characters after the "//" up to and
\* including the first newline, and when that newline exists the comment
\* span is multi-line and the next token starts at column 0 of the
\* following line; "// hi\nx" yields Comment(" hi\n") then Identifier("x").
C10_LineComment ==
   /\ [][(ReadsFrom({"/"}) /\ Len(source) >= 2 /\ source[2] = "/") =>
            LET rest == Drop(source, 2)
                n == LineLength(rest)
            IN  /\ GaveToken(last')
                /\ last'.ret[1].lexeme =
                      Lexeme("Comment", Take(rest, n), NoValue)
                /\ source' = Drop(rest, n)
                /\ NewlinesOf(rest) # {} =>
                      /\ is_multi_line(last'.ret[1].span)
                      /\ last'.ret[1].lexeme.text[n] = "\n"
                      /\ StartOf(span') = << span.start_line + 1, 0 >>
                      /\ EndOf(span') = StartOf(span')]_vars
   /\ [](input = CommentExample /\ Len(tokens) >= 2 =>
            /\ tokens[1].lexeme =
                  Lexeme("Comment", <<" ", "h", "i", "\n">>, NoValue)
            /\ tokens[2].lexeme = Lexeme("Identifier", <<"x">>, NoValue)
            /\ StartOf(tokens[2].span) = << 2, 0 >>)

\* "// hi\nx" has been scanned past the comment.
C10_Witness ==
   /\ input = CommentExample
   /\ Len(tokens) >= 2
   /\ Kind(tokens[1]) = "Comment"
   /\ is_multi_line(tokens[1].span)


(***************************************************************************)
(* C11.  Number literals.                                                  *)
(***************************************************************************)
\* The digit a character stands for.
DigitOf(ch) ==
   CASE ch = "0" -> 0 [] ch = "1" -> 1 [] ch = "2" -> 2 [] ch = "3" -> 3
     [] ch = "4" -> 4 [] ch = "5" -> 5 [] ch = "6" -> 6 [] ch = "7" -> 7
     [] ch = "8" -> 8 [] ch = "9" -> 9

\* The whole number a text is once its '.' is left out, read left to right.
RECURSIVE Unscaled(_, _)
Unscaled(text, acc) ==
   IF text = << >> THEN acc
   ELSE IF Head(text) = "." THEN Unscaled(Tail(text), acc)
   ELSE Unscaled(Tail(text), 10 * acc + DigitOf(Head(text)))

\* The number of digits of a text after its '.'.
FractionDigits(text) ==
   IF \E i \in 1..Len(text) : text[i] = "."
   THEN Len(text) - (CHOOSE i \in 1..Len(text) : text[i] = ".")
   ELSE 0

RECURSIVE TenTo(_)
TenTo(k) == IF k = 0 THEN 1 ELSE TenTo(k - 1) * 10

\* v is the value of the decimal text.
IsValueOf(v, text) ==
   v.den > 0 /\ v.num * TenTo(FractionDigits(text)) = v.den * Unscaled(text, 0)

\* The length of the longest number literal that starts text: the maximal
\* run of digits, then, if a '.' and a digit follow, the '.' and the
\* maximal run of digits after it.
NumberLength(text) ==
   LET n == RunLength(text, DigitChars)
   IN  IF Len(text) >= n + 2 /\ text[n + 1] = "." /\ text[n + 2] \in DigitChars
       THEN n + 1 + RunLength(Drop(text, n + 1), DigitChars)
       ELSE n

\* The leading digits of text are followed by a '.' that no digit follows.
DanglingDot(text) ==
   LET n == RunLength(text, DigitChars)
   IN  /\ Len(text) >= n + 1
       /\ text[n + 1] = "."
       /\ Len(text) = n + 1 \/ text[n + 2] \notin DigitChars

NumberExample == <<"1", "2", ".", "3">>

\* C11: when a token starts with a digit and scanning of it succeeds, the
\* characters consumed are exactly the maximal run of digits, optionally
\* followed by one '.' and a maximal non-empty run of digits, and the token
\* is Number(v) where v is the value of the consumed text ("12.3" yields
\* Number(12.3)); the span is one-line, as wide as the consumed text.
C11_NumberLiteral ==
   /\ [][(ReadsFrom(DigitChars) /\ GaveToken(last')) =>
            LET n == NumberLength(source)
            IN  /\ source' = Drop(source, n)
                /\ Kind(last'.ret[1]) = "Number"
                /\ last'.ret[1].lexeme.text = NoText
                /\ Len(last'.ret[1].lexeme.value) = 1
                /\ IsValueOf(last'.ret[1].lexeme.value[1], Take(source, n))
                /\ is_one_line(last'.ret[1].span)
                /\ Width(last'.ret[1].span) = n
                /\ Covered(input, last'.ret[1].span) = Take(source, n)]_vars
   /\ [](input = NumberExample /\ tokens # << >> =>
            /\ Kind(tokens[1]) = "Number"
            /\ tokens[1].lexeme.value = << [num |-> 123, den |-> 10] >>
            /\ Width(tokens[1].span) = 4)

\* "12.3" has been scanned to its end.
C11_Witness ==
   /\ input = NumberExample
   /\ Len(tokens) = 2
   /\ Kind(tokens[1]) = "Number"
   /\ Kind(tokens[2]) = "Eof"

(***************************************************************************)
(* C12.  A '.' after digits needs a digit after it.                        *)
(***************************************************************************)
\* C12: when a run of digits is immediately followed by a '.' that is not
\* followed by at least one digit (the end of the input included), the scan
\* of that literal ends in a failure: no Number token is returned for the
\* digits and no Dot token is made for the '.'.
C12_DanglingDotFails ==
   [][(ReadsFrom(DigitChars) /\ DanglingDot(source)) =>
         /\ last'.panic # NoPanic
         /\ last'.ret = << >>
         /\ tokens' = tokens
         /\ ~CanRead']_vars

\* The scan of "12." has failed.
C12_Witness ==
   /\ input = <<"1", "2", ".">>
   /\ calls = 1
   /\ Failed
   /\ tokens = << >>


(***************************************************************************)
(* C13.  Unterminated strings.                                             *)
(***************************************************************************)
HasQuote(text) == \E i \in 1..Len(text) : text[i] = "\""

StringTokens(toks) ==
   {i \in 1..Len(toks) : Kind(toks[i]) = "String"}

\* C13: when a double quote is read and the cursor is exhausted before
\* another double quote is found, the scan ends in a failure and no String
\* token is produced, not even one holding the characters read so far.
C13_UnterminatedString ==
   [][(ReadsFrom({"\""}) /\ ~HasQuote(Tail(source))) =>
         /\ last'.panic # NoPanic
         /\ last'.ret = << >>
         /\ tokens' = tokens
         /\ StringTokens(tokens') = StringTokens(tokens)
         /\ ~CanRead']_vars

\* The scan of "abc (no closing quote) has failed.
C13_Witness ==
   /\ input = <<"\"", "a", "b", "c">>
   /\ calls = 1
   /\ Failed
   /\ tokens = << >>

(***************************************************************************)
(* C14.  Characters that start no token.                                   *)
(***************************************************************************)
PunctuatorChars == {"(", ")", "{", "}", ",", ".", "+", "-", ";", "*"}

\* The characters read_token_with_char has an arm for.
DispatchChars ==
   PunctuatorChars \cup OperatorChars \cup {"/", "\n", "\""}
      \cup {" ", "\t", "\r"} \cup DigitChars \cup WordStartChars

\* C14: when the first character of a would-be token is none of the
\* characters the dispatch knows, read() ends in a failure that identifies
\* that character, and no token is produced for it.
C14_UnknownCharacter ==
   [][(CanRead /\ ~eof_generated /\ source # << >>
          /\ Head(source) \notin DispatchChars) =>
         /\ last'.panic = << "Unknown char", Head(source) >>
         /\ last'.ret = << >>
         /\ tokens' = tokens
         /\ ~CanRead']_vars

\* The scan of "1@" has failed at the '@', after the Number token.
C14_Witness ==
   /\ input = <<"1", "@">>
   /\ calls = 2
   /\ Len(tokens) = 1
   /\ last.panic = << "Unknown char", "@" >>

(***************************************************************************)
(* C15.  Failures as results.                                              *)
(***************************************************************************)
\* C15: on an unterminated string, an unrecognized character or a malformed
\* number, each read() call returns a result (a token or a failure kind)
\* instead of aborting: every call made so far has returned to its caller,
\* none has unwound with a panic.
C15_EveryCallReturns == calls > 0 => last.panic = NoPanic


(***************************************************************************)
(* C17.  String literals.                                                  *)
(***************************************************************************)
\* The place of the first double quote of a text that has one.
FirstQuote(text) ==
   CHOOSE q \in 1..Len(text) :
      text[q] = "\"" /\ \A i \in 1..(q - 1) : text[i] # "\""

\* The position in the input of the next character to be read.
Here == Len(input) - Len(source)

\* C17: when a double quote is read and a later double quote exists, read()
\* returns one String token whose payload is exactly the characters between
\* the opening quote and the first following quote, the quotes left out and
\* any newline kept; the span covers both quotes, and its end line minus
\* its start line is the number of newlines inside the string.
C17_StringLiteral ==
   [][(ReadsFrom({"\""}) /\ HasQuote(Tail(source))) =>
         LET q == FirstQuote(Tail(source))
             payload == Take(Tail(source), q - 1)
         IN  /\ GaveToken(last')
             /\ tokens' = Append(tokens, last'.ret[1])
             /\ last'.ret[1].lexeme = [kind |-> "String", text |-> payload,
                                       value |-> << >>]
             /\ source' = Drop(source, q + 1)
             /\ Offset(input, StartOf(last'.ret[1].span)) = Here
             /\ Covered(input, last'.ret[1].span) = Take(source, q + 1)
             /\ last'.ret[1].span.end_line - last'.ret[1].span.start_line
                   = Cardinality(NewlinesOf(payload))]_vars

\* A string with a newline inside has been scanned.
C17_Witness ==
   \E i \in 1..Len(tokens) :
      /\ Kind(tokens[i]) = "String"
      /\ NewlinesOf(tokens[i].lexeme.text) # {}
      /\ tokens[i].span.end_line = tokens[i].span.start_line + 1

(***************************************************************************)
(* C18.  Whitespace.                                                       *)
(***************************************************************************)
BlankChars == {" ", "\t", "\r"}

\* C18: when a token starts with a space, a tab or a carriage return, read()
\* returns one Whitespace token whose payload is the maximal run of such
\* characters; the payload never holds a newline, the span is one-line and
\* as wide as the payload is long, and no two Whitespace tokens are ever
\* next to each other in the token sequence.
C18_Whitespace ==
   /\ [][ReadsFrom(BlankChars) =>
            LET n == RunLength(source, BlankChars)
            IN  /\ GaveToken(last')
                /\ tokens' = Append(tokens, last'.ret[1])
                /\ last'.ret[1].lexeme = [kind |-> "Whitespace",
                                          text |-> Take(source, n),
                                          value |-> << >>]
                /\ source' = Drop(source, n)
                /\ is_one_line(last'.ret[1].span)
                /\ Width(last'.ret[1].span) = n
                /\ Offset(input, StartOf(last'.ret[1].span)) = Here]_vars
   /\ [](\A i \in 1..Len(tokens) :
            Kind(tokens[i]) = "Whitespace" =>
               /\ tokens[i].lexeme.text # << >>
               /\ \A k \in 1..Len(tokens[i].lexeme.text) :
                     tokens[i].lexeme.text[k] \in BlankChars
               /\ i < Len(tokens) => Kind(tokens[i + 1]) # "Whitespace")

\* The run space, tab, carriage return has been scanned as one token.
C18_Witness ==
   \E i \in 1..Len(tokens) :
      /\ Kind(tokens[i]) = "Whitespace"
      /\ tokens[i].lexeme.text = <<" ", "\t", "\r">>
      /\ tokens[i].span.start_col = 1
      /\ tokens[i].span.end_col = 4

(***************************************************************************)
(* C19.  Newlines.                                                         *)
(***************************************************************************)
\* C19: a newline read as the first character of a token yields a NewLine
\* token whose span runs over two lines, from the newline's (line, column)
\* to (line + 1, 0); the token after it therefore starts at column 0 of the
\* next line.
C19_NewLine ==
   [][ReadsFrom({"\n"}) =>
         /\ GaveToken(last')
         /\ tokens' = Append(tokens, last'.ret[1])
         /\ last'.ret[1].lexeme = [kind |-> "NewLine", text |-> << >>,
                                   value |-> << >>]
         /\ source' = Tail(source)
         /\ StartOf(last'.ret[1].span) = EndOf(span)
         /\ Offset(input, EndOf(span)) = Here
         /\ EndOf(last'.ret[1].span) = << span.end_line + 1, 0 >>
         /\ is_multi_line(last'.ret[1].span)
         /\ StartOf(span') = << span.end_line + 1, 0 >>
         /\ EndOf(span') = << span.end_line + 1, 0 >>]_vars

\* A newline in column 1 of line 1 has been scanned, and the token after it.
C19_Witness ==
   \E i \in 1..(Len(tokens) - 1) :
      /\ Kind(tokens[i]) = "NewLine"
      /\ StartOf(tokens[i].span) = << 1, 1 >>
      /\ EndOf(tokens[i].span) = << 2, 0 >>
      /\ Kind(tokens[i + 1]) # "Eof"
      /\ StartOf(tokens[i + 1].span) = << 2, 0 >>

(***************************************************************************)
(* C20.  Punctuators.                                                      *)
(***************************************************************************)
PunctuatorVariant(ch) ==
   CASE ch = "(" -> "LeftParen" [] ch = ")" -> "RightParen"
     [] ch = "{" -> "LeftBrace" [] ch = "}" -> "RightBrace"
     [] ch = "," -> "Comma" [] ch = "." -> "Dot"
     [] ch = "+" -> "Plus" [] ch = "-" -> "Minus"
     [] ch = ";" -> "Semicolon" [] ch = "*" -> "Star"

\* C20: each of the punctuators ( ) { } , . + - ; * read as the first
\* character of a token yields exactly the matching lexeme, with a one-line
\* span of width 1 that starts at that character's column, and consumes no
\* further character.
C20_Punctuators ==
   [][ReadsFrom(PunctuatorChars) =>
         /\ GaveToken(last')
         /\ tokens' = Append(tokens, last'.ret[1])
         /\ last'.ret[1].lexeme = [kind |-> PunctuatorVariant(Head(source)),
                                   text |-> << >>, value |-> << >>]
         /\ source' = Tail(source)
         /\ is_one_line(last'.ret[1].span)
         /\ Width(last'.ret[1].span) = 1
         /\ StartOf(last'.ret[1].span) = EndOf(span)
         /\ Offset(input, StartOf(last'.ret[1].span)) = Here]_vars

\* A '+' with a character after it has been scanned, the character left.
C20_Witness ==
   /\ calls = 1
   /\ Len(tokens) = 1
   /\ Kind(tokens[1]) = "Plus"
   /\ Len(input) = 2
   /\ source = Tail(input)


(***************************************************************************)
(* A Span driven directly (span.rs 32-99), as its tests drive it           *)
(***************************************************************************)
\* The lines, columns, column increments and number of calls followed.
MaxSpanLine == 2
MaxSpanCol == 2
MaxIncr == 3
MaxSpanCalls == 3

Span_new(l, c) ==
   [start_line |-> l, start_col |-> c, end_line |-> l, end_col |-> c + 1]

\* What `last` holds when an operation is called directly: the operation,
\* its arguments, what it returned (nothing for a unit return) and the
\* panic it ended in, if any.
Called(op, args, ret) ==
   [op |-> op, args |-> args, ret |-> ret, panic |-> NoPanic]

NoCall == Called("none", << >>, << >>)

\* No Context takes part.
NoContext ==
   /\ constructed = FALSE
   /\ input = << >>
   /\ source = << >>
   /\ eof_generated = FALSE
   /\ none_reads = 0

SpanInit ==
   /\ NoContext
   /\ \/ span = SpanDefault
      \/ \E l \in 1..MaxSpanLine, c \in 0..MaxSpanCol : span = Span_new(l, c)
   /\ tokens = << >>
   /\ last = NoCall
   /\ calls = 0
   /\ dbg_held = TRUE

SpanFrame ==
   UNCHANGED << constructed, input, source, eof_generated, tokens,
                none_reads, dbg_held >>

SpanIncrColN ==
   /\ calls < MaxSpanCalls
   /\ \E n \in 0..MaxIncr :
         /\ span' = incr_col_n(span, n)
         /\ last' = Called("incr_col_n", << n >>, << >>)
   /\ calls' = calls + 1
   /\ SpanFrame

SpanIncrCol ==
   /\ calls < MaxSpanCalls
   /\ span' = incr_col(span)
   /\ last' = Called("incr_col", << >>, << >>)
   /\ calls' = calls + 1
   /\ SpanFrame

SpanIncrLine ==
   /\ calls < MaxSpanCalls
   /\ span' = incr_line(span)
   /\ last' = Called("incr_line", << >>, << >>)
   /\ calls' = calls + 1
   /\ SpanFrame

SpanComplete ==
   /\ calls < MaxSpanCalls
   /\ span' = complete(span).self
   /\ last' = Called("complete", << >>, << complete(span).ret >>)
   /\ calls' = calls + 1
   /\ SpanFrame

SpanNext ==
   \/ SpanIncrColN
   \/ SpanIncrCol
   \/ SpanIncrLine
   \/ SpanComplete

SpanSpec == SpanInit /\ [][SpanNext]_vars

\* The step is a call of op.
IsCall(op) == calls' = calls + 1 /\ last'.op = op

(***************************************************************************)
(* C23.  incr_col_n and incr_line.                                         *)
(***************************************************************************)
\* C23: on the span accumulator, incr_col_n(n) increases end_col by exactly
\* n and incr_line() increases end_line by exactly 1 and sets end_col to 0;
\* both leave start_line and start_col unchanged, and incr_col_n leaves
\* end_line unchanged too.
C23_IncrColIncrLine ==
   /\ [][IsCall("incr_col_n") =>
            /\ span'.end_col = span.end_col + last'.args[1]
            /\ span'.end_line = span.end_line
            /\ span'.start_line = span.start_line
            /\ span'.start_col = span.start_col]_vars
   /\ [][IsCall("incr_col") =>
            /\ span'.end_col = span.end_col + 1
            /\ span'.end_line = span.end_line
            /\ span'.start_line = span.start_line
            /\ span'.start_col = span.start_col]_vars
   /\ [][IsCall("incr_line") =>
            /\ span'.end_line = span.end_line + 1
            /\ span'.end_col = 0
            /\ span'.start_line = span.start_line
            /\ span'.start_col = span.start_col]_vars

\* Span::new(2, 2), then incr_col_n(3), then incr_line().
C23_Witness ==
   /\ calls = 2
   /\ last.op = "incr_line"
   /\ span = [start_line |-> 2, start_col |-> 2, end_line |-> 3, end_col |-> 0]

(***************************************************************************)
(* C24.  complete.                                                         *)
(***************************************************************************)
\* C24: complete() returns a span equal to the accumulator's value just
\* before the call, and afterwards the accumulator has start = its previous
\* end and end unchanged; so a second complete() with nothing consumed in
\* between returns a zero-width span at that same end position.
C24_Complete ==
   /\ [][IsCall("complete") =>
            /\ last'.ret = << span >>
            /\ StartOf(span') = EndOf(span)
            /\ EndOf(span') = EndOf(span)]_vars
   /\ [][(last.op = "complete" /\ IsCall("complete")) =>
            /\ StartOf(last'.ret[1]) = EndOf(last.ret[1])
            /\ EndOf(last'.ret[1]) = EndOf(last.ret[1])]_vars

\* A span over two lines has been completed, and completed again.
C24_Witness ==
   /\ calls = 3
   /\ last.op = "complete"
   /\ last.ret = << [start_line |-> 2, start_col |-> 0,
                     end_line |-> 2, end_col |-> 0] >>
   /\ span = last.ret[1]


(***************************************************************************)
(* The renderings of a Lexeme (lexeme.rs 110-206)                          *)
(***************************************************************************)
DigitChar(d) == <<"0", "1", "2", "3", "4", "5", "6", "7", "8", "9">>[d + 1]

\* A natural number in decimal.
RECURSIVE NatDigits(_)
NatDigits(n) ==
   IF n < 10 THEN << DigitChar(n) >>
   ELSE Append(NatDigits(n \div 10), DigitChar(n % 10))

\* The number of decimals of a fraction with denominator den, counted from k.
RECURSIVE DecimalsFrom(_, _)
DecimalsFrom(den, k) ==
   IF Pow10(k) % den = 0 THEN k ELSE DecimalsFrom(den, k + 1)

\* The k decimals that stand for f / 10^k.
RECURSIVE Decimals(_, _)
Decimals(f, k) ==
   IF k = 0 THEN << >>
   ELSE Append(Decimals(f \div 10, k - 1), DigitChar(f % 10))

\* "{}" of an f64 that is a non-negative decimal: the whole part, then, when
\* the value is not whole, '.' and the decimals, no trailing zero.
f64_Display_fmt(v) ==
   LET k == DecimalsFrom(v.den, 0)
       scaled == (v.num * Pow10(k)) \div v.den
   IN  NatDigits(scaled \div Pow10(k))
          \o (IF k = 0 THEN << >>
              ELSE <<".">> \o Decimals(scaled % Pow10(k), k))

\* impl Debug for Lexeme: what write! puts out, character by character.
Lexeme_Debug_fmt(l) ==
   CASE l.kind = "LeftParen" -> <<"L", "_", "P", "A", "R", "E", "N">>
     [] l.kind = "RightParen" -> <<"R", "_", "P", "A", "R", "E", "N">>
     [] l.kind = "LeftBrace" -> <<"L", "_", "B", "R", "A", "C", "E">>
     [] l.kind = "RightBrace" -> <<"R", "_", "B", "R", "A", "C", "E">>
     [] l.kind = "Comma" -> <<"C", "O", "M", "M", "A">>
     [] l.kind = "Dot" -> <<"D", "O", "T">>
     [] l.kind = "Minus" -> <<"M", "I", "N", "U", "S">>
     [] l.kind = "Plus" -> <<"P", "L", "U", "S">>
     [] l.kind = "Semicolon" -> <<"S", "E", "M", "I", "C", "O", "L", "O", "N">>
     [] l.kind = "Slash" -> <<"S", "L", "A", "S", "H">>
     [] l.kind = "Star" -> <<"S", "T", "A", "R">>
     [] l.kind = "Bang" -> <<"B", "A", "N", "G">>
     [] l.kind = "BangEqual" -> <<"B", "A", "N", "G", "_", "E", "Q", "U", "A", "L">>
     [] l.kind = "Equal" -> <<"E", "Q", "U", "A", "L">>
     [] l.kind = "EqualEqual" -> <<"E", "Q", "U", "A", "L", "_", "E", "Q", "U", "A", "L">>
     [] l.kind = "Greater" -> <<"G", "R", "E", "A", "T", "E", "R">>
     [] l.kind = "GreaterEqual" -> <<"G", "R", "E", "A", "T", "E", "R", "_", "E", "Q", "U", "A", "L">>
     [] l.kind = "Less" -> <<"L", "E", "S", "S">>
     [] l.kind = "LessEqual" -> <<"L", "E", "S", "S", "_", "E", "Q", "U", "A", "L">>
     [] l.kind = "Identifier" -> <<"I", "D", "E", "N", "T", "I", "T", "Y", "(">> \o l.text \o <<")">>
     [] l.kind = "String" -> <<"S", "T", "R", "I", "N", "G", "(">> \o l.text
     [] l.kind = "Number" -> <<"N", "U", "M", "B", "E", "R", "(">> \o f64_Display_fmt(l.value[1]) \o <<")">>
     [] l.kind = "Comment" -> <<"C", "O", "M", "M", "E", "N", "T", "(">> \o l.text \o <<")">>
     [] l.kind = "And" -> <<"A", "N", "D">>
     [] l.kind = "Class" -> <<"C", "L", "A", "S", "S">>
     [] l.kind = "Else" -> <<"E", "L", "S", "E">>
     [] l.kind = "False" -> <<"F", "A", "L", "S", "E">>
     [] l.kind = "Fun" -> <<"F", "U", "N">>
     [] l.kind = "For" -> <<"F", "O", "R">>
     [] l.kind = "If" -> <<"I", "F">>
     [] l.kind = "Nil" -> <<"N", "I", "L">>
     [] l.kind = "Or" -> <<"O", "R">>
     [] l.kind = "Print" -> <<"P", "R", "I", "N", "T">>
     [] l.kind = "Return" -> <<"R", "E", "T", "U", "R", "N">>
     [] l.kind = "Super" -> <<"S", "U", "P", "E", "R">>
     [] l.kind = "This" -> <<"T", "H", "I", "S">>
     [] l.kind = "True" -> <<"T", "R", "U", "E">>
     [] l.kind = "Var" -> <<"V", "A", "R">>
     [] l.kind = "While" -> <<"W", "H", "I", "L", "E">>
     [] l.kind = "Whitespace" -> <<"W", "H", "I", "T", "E", "S", "P", "A", "C", "E", "(">> \o l.text \o <<")">>
     [] l.kind = "NewLine" -> <<"N", "E", "W", "_", "L", "I", "N", "E">>
     [] l.kind = "Eof" -> <<"E", "O", "F">>

\* Display that writes nothing for Eof.
Lexeme_Display_fmt_silent_eof(l) ==
   IF l.kind = "Eof" THEN << >>
   ELSE IF l.kind \in {"Identifier", "String", "Comment", "Whitespace"}
   THEN <<"(">> \o l.text \o <<")">>
   ELSE <<l.kind>>

\* impl Display for Lexeme: what write! puts out, character by character.
Lexeme_Display_fmt(l) ==
   CASE l.kind = "LeftParen" -> <<"(">>
     [] l.kind = "RightParen" -> <<")">>
     [] l.kind = "LeftBrace" -> <<"{">>
     [] l.kind = "RightBrace" -> <<"}">>
     [] l.kind = "Comma" -> <<",">>
     [] l.kind = "Dot" -> <<".">>
     [] l.kind = "Minus" -> <<"-">>
     [] l.kind = "Plus" -> <<"+">>
     [] l.kind = "Semicolon" -> <<";">>
     [] l.kind = "Slash" -> <<"/">>
     [] l.kind = "Star" -> <<"*">>
     [] l.kind = "Bang" -> <<"!">>
     [] l.kind = "BangEqual" -> <<"!", "=">>
     [] l.kind = "Equal" -> <<"=">>
     [] l.kind = "EqualEqual" -> <<"=", "=">>
     [] l.kind = "Greater" -> <<">">>
     [] l.kind = "GreaterEqual" -> <<">", "=">>
     [] l.kind = "Less" -> <<"<">>
     [] l.kind = "LessEqual" -> <<"<", "=">>
     [] l.kind = "Identifier" -> <<"i", "d", "(">> \o l.text \o <<")">>
     [] l.kind = "String" -> <<"s", "t", "r", "(">> \o l.text
     [] l.kind = "Number" -> <<"n", "u", "m", "(">> \o f64_Display_fmt(l.value[1]) \o <<")">>
     [] l.kind = "Comment" -> <<"c", "m", "t", "(">> \o l.text \o <<")">>
     [] l.kind = "And" -> <<"a", "n", "d">>
     [] l.kind = "Class" -> <<"c", "l", "a", "s", "s">>
     [] l.kind = "Else" -> <<"e", "l", "s", "e">>
     [] l.kind = "False" -> <<"f", "a", "l", "s", "e">>
     [] l.kind = "Fun" -> <<"f", "u", "n">>
     [] l.kind = "For" -> <<"f", "o", "r">>
     [] l.kind = "If" -> <<"i", "f">>
     [] l.kind = "Nil" -> <<"n", "i", "l">>
     [] l.kind = "Or" -> <<"o", "r">>
     [] l.kind = "Print" -> <<"p", "r", "i", "n", "t">>
     [] l.kind = "Return" -> <<"r", "e", "t", "u", "r", "n">>
     [] l.kind = "Super" -> <<"s", "u", "p", "e", "r">>
     [] l.kind = "This" -> <<"t", "h", "i", "s">>
     [] l.kind = "True" -> <<"t", "r", "u", "e">>
     [] l.kind = "Var" -> <<"v", "a", "r">>
     [] l.kind = "While" -> <<"w", "h", "i", "l", "e">>
     [] l.kind = "Whitespace" -> <<"w", "s", "(">> \o l.text \o <<")">>
     [] l.kind = "NewLine" -> <<"n", "l">>
     [] l.kind = "Eof" -> <<"e", "o", "f">>

\* The variants without a payload.
PlainKinds ==
   {"LeftParen", "RightParen", "LeftBrace", "RightBrace", "Comma",
    "Dot", "Minus", "Plus", "Semicolon", "Slash", "Star", "Bang",
    "BangEqual", "Equal", "EqualEqual", "Greater", "GreaterEqual",
    "Less", "LessEqual", "And", "Class", "Else", "False", "Fun",
    "For", "If", "Nil", "Or", "Print", "Return", "Super", "This",
    "True", "Var", "While", "NewLine", "Eof"}

TextKinds == {"Identifier", "String", "Comment", "Whitespace"}

\* The payloads rendered: every text of up to MaxPayloadLen characters of
\* PayloadAlphabet, and a few numbers.
MaxPayloadLen == 2

PayloadAlphabet == {"a", "(", ")", "\n"}

TestPayloads == UNION {[1..n -> PayloadAlphabet] : n \in 0..MaxPayloadLen}

TestNumbers ==
   {[num |-> 0, den |-> 1], [num |-> 12, den |-> 1], [num |-> 123, den |-> 10],
    [num |-> 3, den |-> 2], [num |-> 1, den |-> 20]}

TestLexemes ==
   {Plain(k) : k \in PlainKinds}
      \cup {Lexeme(k, t, NoValue) : k \in TextKinds, t \in TestPayloads}
      \cup {Lexeme("Number", NoText, << v >>) : v \in TestNumbers}

LexemeInit ==
   /\ NoContext
   /\ span = SpanDefault
   /\ tokens = << >>
   /\ last = NoCall
   /\ calls = 0
   /\ dbg_held = TRUE

LexemeFrame ==
   UNCHANGED << constructed, input, source, span, eof_generated, tokens,
                calls, none_reads, dbg_held >>

\* format!("{:?}", l)
LexemeDebug ==
   /\ \E l \in TestLexemes :
         last' = Called("Debug::fmt", << l >>, << Lexeme_Debug_fmt(l) >>)
   /\ LexemeFrame

\* format!("{}", l)
LexemeDisplay ==
   /\ \E l \in TestLexemes :
         last' = Called("Display::fmt", << l >>, << Lexeme_Display_fmt(l) >>)
   /\ LexemeFrame

LexemeNext ==
   \/ LexemeDebug
   \/ LexemeDisplay

LexemeSpec == LexemeInit /\ [][LexemeNext]_vars

Rendered == last.op \in {"Debug::fmt", "Display::fmt"}

(***************************************************************************)
(* C21.  Renderings are not empty.                                         *)
(***************************************************************************)
\* C21: for every Lexeme variant, the payload kinds Identifier, String,
\* Number, Comment and Whitespace with any payload included, both the debug
\* rendering and the display rendering are non-empty strings.
C21_RenderingsNotEmpty == Rendered => Len(last.ret[1]) > 0

\* A String lexeme with the empty payload has been displayed.
C21_Witness ==
   /\ last.op = "Display::fmt"
   /\ last.args = << Lexeme("String", << >>, NoValue) >>
   /\ Len(last.ret[1]) = 4

(***************************************************************************)
(* C22.  The renderings of the payload kinds.                              *)
(***************************************************************************)
UpperChars ==
   {"A", "B", "C", "D", "E", "F", "G", "H", "I", "J", "K", "L", "M",
    "N", "O", "P", "Q", "R", "S", "T", "U", "V", "W", "X", "Y", "Z", "_"}

\* text is name(payload) for some non-empty uppercase name.
IsUpperNameWith(text, payload) ==
   \E n \in 1..Len(text) :
      /\ \A i \in 1..n : text[i] \in UpperChars
      /\ text = Take(text, n) \o <<"(">> \o payload \o <<")">>

\* The payload of a lexeme as text.
PayloadText(l) ==
   IF l.kind = "Number" THEN f64_Display_fmt(l.value[1]) ELSE l.text

\* C22: for every payload text v, the display form of Identifier(v) is
\* exactly id(v) and the display form of String(v) is exactly str(v), and
\* the debug form of each payload kind is its uppercase symbolic name
\* followed by the payload echoed inside a matching pair of parentheses.
C22_PayloadRenderings ==
   Rendered =>
      LET l == last.args[1]
          text == last.ret[1]
      IN  /\ (last.op = "Display::fmt" /\ l.kind = "Identifier") =>
                text = <<"i", "d", "(">> \o l.text \o <<")">>
          /\ (last.op = "Display::fmt" /\ l.kind = "String") =>
                text = <<"s", "t", "r", "(">> \o l.text \o <<")">>
          /\ (last.op = "Debug::fmt" /\ l.kind \in TextKinds \cup {"Number"}) =>
                IsUpperNameWith(text, PayloadText(l))


(***************************************************************************)
(* The Token constructors called directly (token.rs 17-302)                *)
(***************************************************************************)
\* The keyword constructors (token.rs 174-284); read() builds keyword
\* tokens from the KEYWORDS table instead.
new_and(s) == Built("And", s, is_n_chars(s, 3))
new_class(s) == Built("Class", s, is_n_chars(s, 5))
new_else(s) == Built("Else", s, is_n_chars(s, 4))
new_false(s) == Built("False", s, is_n_chars(s, 5))
new_fun(s) == Built("Fun", s, is_n_chars(s, 3))
new_for(s) == Built("For", s, is_n_chars(s, 3))
new_if(s) == Built("If", s, is_n_chars(s, 2))
new_nil(s) == Built("Nil", s, is_n_chars(s, 3))
new_or(s) == Built("Or", s, is_n_chars(s, 2))
new_print(s) == Built("Print", s, is_n_chars(s, 5))
new_return(s) == Built("Return", s, is_n_chars(s, 6))
new_super(s) == Built("Super", s, is_n_chars(s, 5))
new_this(s) == Built("This", s, is_n_chars(s, 4))
new_true(s) == Built("True", s, is_n_chars(s, 4))
new_var(s) == Built("Var", s, is_n_chars(s, 3))
new_while(s) == Built("While", s, is_n_chars(s, 5))

\* debug_assert!(..) that does not hold, in a build with debug assertions.
PanicDebugAssert == << "assertion failed" >>

PlainConstructors ==
   {"new_left_paren", "new_right_paren", "new_left_brace",
    "new_right_brace", "new_comma", "new_dot", "new_plus",
    "new_minus", "new_semicolon", "new_slash", "new_star", "new_bang",
    "new_bang_equal", "new_equal", "new_equal_equal", "new_greater",
    "new_greater_equal", "new_less", "new_less_equal", "new_and",
    "new_class", "new_else", "new_false", "new_fun", "new_for",
    "new_if", "new_nil", "new_or", "new_print", "new_return",
    "new_super", "new_this", "new_true", "new_var", "new_while",
    "new_newline", "new_eof"}

TextConstructors ==
   {"new_identifier", "new_string", "new_comment", "new_whitespace"}

\* Token::<name>(s)
CallPlain(name, s) ==
   CASE name = "new_left_paren" -> new_left_paren(s)
     [] name = "new_right_paren" -> new_right_paren(s)
     [] name = "new_left_brace" -> new_left_brace(s)
     [] name = "new_right_brace" -> new_right_brace(s)
     [] name = "new_comma" -> new_comma(s)
     [] name = "new_dot" -> new_dot(s)
     [] name = "new_plus" -> new_plus(s)
     [] name = "new_minus" -> new_minus(s)
     [] name = "new_semicolon" -> new_semicolon(s)
     [] name = "new_slash" -> new_slash(s)
     [] name = "new_star" -> new_star(s)
     [] name = "new_bang" -> new_bang(s)
     [] name = "new_bang_equal" -> new_bang_equal(s)
     [] name = "new_equal" -> new_equal(s)
     [] name = "new_equal_equal" -> new_equal_equal(s)
     [] name = "new_greater" -> new_greater(s)
     [] name = "new_greater_equal" -> new_greater_equal(s)
     [] name = "new_less" -> new_less(s)
     [] name = "new_less_equal" -> new_less_equal(s)
     [] name = "new_and" -> new_and(s)
     [] name = "new_class" -> new_class(s)
     [] name = "new_else" -> new_else(s)
     [] name = "new_false" -> new_false(s)
     [] name = "new_fun" -> new_fun(s)
     [] name = "new_for" -> new_for(s)
     [] name = "new_if" -> new_if(s)
     [] name = "new_nil" -> new_nil(s)
     [] name = "new_or" -> new_or(s)
     [] name = "new_print" -> new_print(s)
     [] name = "new_return" -> new_return(s)
     [] name = "new_super" -> new_super(s)
     [] name = "new_this" -> new_this(s)
     [] name = "new_true" -> new_true(s)
     [] name = "new_var" -> new_var(s)
     [] name = "new_while" -> new_while(s)
     [] name = "new_newline" -> new_newline(s)
     [] name = "new_eof" -> new_eof(s)

\* Token::<name>(t, s)
CallText(name, t, s) ==
   CASE name = "new_identifier" -> new_identifier(t, s)
     [] name = "new_string" -> new_string(t, s)
     [] name = "new_comment" -> new_comment(t, s)
     [] name = "new_whitespace" -> new_whitespace(t, s)

\* The widest span handed to a constructor ("return" has six characters).
MaxTokenWidth == 6

\* The spans handed to the constructors: built as the tests build them, by
\* Span::new, incr_col_n and incr_line.
TestSpans ==
   {SpanDefault}
      \cup {incr_col_n(Span_new(l, c), n) :
               l \in 1..MaxSpanLine, c \in 0..MaxSpanCol,
               n \in 0..(MaxTokenWidth - 1)}
      \cup {incr_line(incr_col_n(Span_new(l, c), n)) :
               l \in 1..MaxSpanLine, c \in 0..MaxSpanCol,
               n \in 0..(MaxTokenWidth - 1)}

\* What a constructor call gives: in a build with debug assertions (debug)
\* a debug_assert! that does not hold panics; otherwise the token is
\* returned.
Constructed(name, args, built, debug) ==
   IF debug /\ ~built.dbg
   THEN [op |-> name, args |-> args, ret |-> << >>,
         panic |-> PanicDebugAssert]
   ELSE Called(name, args, << built.tok >>)

\* The payloads handed to the constructors.
TokenPayloads == {<< >>, <<"a">>, <<"a", "b">>, <<"\n">>, <<" ", "\t">>}

\* `span` is the span the test has built and hands to the constructors.
TokenInit ==
   /\ NoContext
   /\ span \in TestSpans
   /\ tokens = << >>
   /\ last = NoCall
   /\ calls = 0
   /\ dbg_held = TRUE

TokenFrame ==
   UNCHANGED << constructed, input, source, span, eof_generated, tokens,
                calls, none_reads >>

TokenNewPlain ==
   /\ \E name \in PlainConstructors, debug \in BOOLEAN :
         /\ last' = Constructed(name, << span >>, CallPlain(name, span), debug)
         /\ dbg_held' = CallPlain(name, span).dbg
   /\ TokenFrame

TokenNewText ==
   /\ \E name \in TextConstructors, t \in TokenPayloads, debug \in BOOLEAN :
         /\ last' = Constructed(name, << t, span >>, CallText(name, t, span),
                                debug)
         /\ dbg_held' = CallText(name, t, span).dbg
   /\ TokenFrame

TokenNewNumber ==
   /\ \E v \in TestNumbers, debug \in BOOLEAN :
         /\ last' = Constructed("new_number", << v, span >>,
                                new_number(v, span), debug)
         /\ dbg_held' = new_number(v, span).dbg
   /\ TokenFrame

TokenNext ==
   \/ TokenNewPlain
   \/ TokenNewText
   \/ TokenNewNumber

TokenSpec == TokenInit /\ [][TokenNext]_vars

(***************************************************************************)
(* C25.  The Token constructors.                                           *)
(***************************************************************************)
\* The variant a constructor is named after.
NamedVariant(name) ==
   CASE name = "new_left_paren" -> "LeftParen"
     [] name = "new_right_paren" -> "RightParen"
     [] name = "new_left_brace" -> "LeftBrace"
     [] name = "new_right_brace" -> "RightBrace"
     [] name = "new_comma" -> "Comma"
     [] name = "new_dot" -> "Dot"
     [] name = "new_plus" -> "Plus"
     [] name = "new_minus" -> "Minus"
     [] name = "new_semicolon" -> "Semicolon"
     [] name = "new_slash" -> "Slash"
     [] name = "new_star" -> "Star"
     [] name = "new_bang" -> "Bang"
     [] name = "new_bang_equal" -> "BangEqual"
     [] name = "new_equal" -> "Equal"
     [] name = "new_equal_equal" -> "EqualEqual"
     [] name = "new_greater" -> "Greater"
     [] name = "new_greater_equal" -> "GreaterEqual"
     [] name = "new_less" -> "Less"
     [] name = "new_less_equal" -> "LessEqual"
     [] name = "new_identifier" -> "Identifier"
     [] name = "new_string" -> "String"
     [] name = "new_number" -> "Number"
     [] name = "new_comment" -> "Comment"
     [] name = "new_and" -> "And"
     [] name = "new_class" -> "Class"
     [] name = "new_else" -> "Else"
     [] name = "new_false" -> "False"
     [] name = "new_fun" -> "Fun"
     [] name = "new_for" -> "For"
     [] name = "new_if" -> "If"
     [] name = "new_nil" -> "Nil"
     [] name = "new_or" -> "Or"
     [] name = "new_print" -> "Print"
     [] name = "new_return" -> "Return"
     [] name = "new_super" -> "Super"
     [] name = "new_this" -> "This"
     [] name = "new_true" -> "True"
     [] name = "new_var" -> "Var"
     [] name = "new_while" -> "While"
     [] name = "new_whitespace" -> "Whitespace"
     [] name = "new_newline" -> "NewLine"
     [] name = "new_eof" -> "Eof"

\* The text of the constructors made for one fixed text.
FixedText(name) ==
   CASE name = "new_left_paren" -> <<"(">>
     [] name = "new_right_paren" -> <<")">>
     [] name = "new_left_brace" -> <<"{">>
     [] name = "new_right_brace" -> <<"}">>
     [] name = "new_comma" -> <<",">>
     [] name = "new_dot" -> <<".">>
     [] name = "new_plus" -> <<"+">>
     [] name = "new_minus" -> <<"-">>
     [] name = "new_semicolon" -> <<";">>
     [] name = "new_slash" -> <<"/">>
     [] name = "new_star" -> <<"*">>
     [] name = "new_bang" -> <<"!">>
     [] name = "new_bang_equal" -> <<"!", "=">>
     [] name = "new_equal" -> <<"=">>
     [] name = "new_equal_equal" -> <<"=", "=">>
     [] name = "new_greater" -> <<">">>
     [] name = "new_greater_equal" -> <<">", "=">>
     [] name = "new_less" -> <<"<">>
     [] name = "new_less_equal" -> <<"<", "=">>
     [] name = "new_and" -> <<"a", "n", "d">>
     [] name = "new_class" -> <<"c", "l", "a", "s", "s">>
     [] name = "new_else" -> <<"e", "l", "s", "e">>
     [] name = "new_false" -> <<"f", "a", "l", "s", "e">>
     [] name = "new_fun" -> <<"f", "u", "n">>
     [] name = "new_for" -> <<"f", "o", "r">>
     [] name = "new_if" -> <<"i", "f">>
     [] name = "new_nil" -> <<"n", "i", "l">>
     [] name = "new_or" -> <<"o", "r">>
     [] name = "new_print" -> <<"p", "r", "i", "n", "t">>
     [] name = "new_return" -> <<"r", "e", "t", "u", "r", "n">>
     [] name = "new_super" -> <<"s", "u", "p", "e", "r">>
     [] name = "new_this" -> <<"t", "h", "i", "s">>
     [] name = "new_true" -> <<"t", "r", "u", "e">>
     [] name = "new_var" -> <<"v", "a", "r">>
     [] name = "new_while" -> <<"w", "h", "i", "l", "e">>

FixedTextConstructors ==
   {"new_left_paren", "new_right_paren", "new_left_brace",
    "new_right_brace", "new_comma", "new_dot", "new_plus",
    "new_minus", "new_semicolon", "new_slash", "new_star", "new_bang",
    "new_bang_equal", "new_equal", "new_equal_equal", "new_greater",
    "new_greater_equal", "new_less", "new_less_equal", "new_and",
    "new_class", "new_else", "new_false", "new_fun", "new_for",
    "new_if", "new_nil", "new_or", "new_print", "new_return",
    "new_super", "new_this", "new_true", "new_var", "new_while"}

IsConstructorCall ==
   last.op \in PlainConstructors \cup TextConstructors \cup {"new_number"}

\* The token the constructor called is named after, with the payload and
\* the span of the call.
NamedToken ==
   [lexeme |-> [kind |-> NamedVariant(last.op),
                text |-> IF last.op \in TextConstructors
                         THEN last.args[1] ELSE << >>,
                value |-> IF last.op = "new_number"
                          THEN << last.args[1] >> ELSE << >>],
    span |-> last.args[Len(last.args)]]

\* C25, as stated: every public Token constructor new_<kind>(span) /
\* new_<kind>(payload, span) returns a token whose lexeme is exactly the
\* named variant (carrying exactly the given payload) and whose span equals
\* the span passed in, unchanged.
C25_ConstructorsReturn ==
   IsConstructorCall => last.panic = NoPanic /\ last.ret = << NamedToken >>

\* C25, amended: a constructor that returns gives that token; and a
\* constructor ends in a panic only if it is made for a fixed text and
\* the span passed in is not one line of exactly as many characters as the
\* text has.
C25_ConstructorsReturnOrAssert ==
   IsConstructorCall =>
      /\ last.panic = NoPanic => last.ret = << NamedToken >>
      /\ last.panic # NoPanic =>
            /\ last.ret = << >>
            /\ last.op \in FixedTextConstructors
            /\ ~(/\ NamedToken.span.start_line = NamedToken.span.end_line
                 /\ Width(NamedToken.span) = Len(FixedText(last.op)))
      /\ (/\ last.op \in FixedTextConstructors
          /\ NamedToken.span.start_line = NamedToken.span.end_line
          /\ Width(NamedToken.span) = Len(FixedText(last.op)))
            => last.panic = NoPanic

\* new_return has been called with a span of six characters.
C25_Witness ==
   /\ last.op = "new_return"
   /\ last.args = << [start_line |-> 2, start_col |-> 1,
                      end_line |-> 2, end_col |-> 7] >>
   /\ last.ret = << [lexeme |-> [kind |-> "Return", text |-> << >>,
                                 value |-> << >>],
                     span |-> last.args[1]] >>


(***************************************************************************)
(* C26.  The debug assertions of a scan.                                   *)
(***************************************************************************)
\* C26: in every run driven only through read(), every debug assertion of
\* the makers and of the token constructors holds when it is reached:
\* eof_generated is false; the accumulator is exactly one character wide on
\* entry to each one-character maker and to mk_whitespace, mk_string,
\* mk_number and mk_identifier_or_keyword, exactly two characters wide on
\* entry to the two-character operators and mk_comment, and multi-line on
\* entry to mk_newline.
C26_DebugAssertionsHold == calls > 0 => dbg_held

\* A text with a keyword, whitespace, an identifier, '=', a newline, a
\* string and ';' has been scanned to its end.
C26_Witness ==
   /\ eof_generated
   /\ Len(tokens) = 8
   /\ Kind(tokens[1]) = "Var"
   /\ Kind(tokens[5]) = "NewLine"
   /\ Kind(tokens[6]) = "String"
   /\ dbg_held

(***************************************************************************)
(* C27.  One complete() per token.                                         *)
(***************************************************************************)
EmptySpan(s) == s.start_line = s.end_line /\ s.start_col = s.end_col

\* C27: every read() that returns a token calls complete() on the
\* accumulator exactly once: the token's span runs from where the
\* accumulator started to where it ends after the call, and the accumulator
\* is left empty there; so at the start of every read() call and after
\* every returned token the accumulator is empty.
C27_CompleteOncePerToken ==
   /\ [](CanRead => EmptySpan(span))
   /\ [](GaveToken(last) => EmptySpan(span))
   /\ [][(calls' = calls + 1 /\ GaveToken(last')) =>
            /\ StartOf(last'.ret[1].span) = StartOf(span)
            /\ EndOf(last'.ret[1].span) = EndOf(span')
            /\ StartOf(span') = EndOf(span')]_vars

\* A token of several characters has been returned, with input left.
C27_Witness ==
   /\ calls = 1
   /\ GaveToken(last)
   /\ Width(last.ret[1].span) = 3
   /\ source # << >>
   /\ CanRead
   /\ StartOf(span) = EndOf(last.ret[1].span)

(***************************************************************************)
(* C28.  Spans run forward.                                                *)
(***************************************************************************)
\* The end of s is not before its start in document order.
NotBefore(s) ==
   \/ s.end_line > s.start_line
   \/ s.end_line = s.start_line /\ s.end_col >= s.start_col

\* C28: in every reachable state of a scan the accumulator's end is not
\* before its start in document order, and the same holds for the span of
\* every token; on a one-line token span end_col - start_col is the number
\* of characters the token consumed.
C28_SpansRunForward ==
   /\ [](NotBefore(span))
   /\ [](\A i \in 1..Len(tokens) : NotBefore(tokens[i].span))
   /\ [][(calls' = calls + 1 /\ GaveToken(last')
             /\ is_one_line(last'.ret[1].span)) =>
            last'.ret[1].span.end_col - last'.ret[1].span.start_col
               = Len(source) - Len(source')]_vars

\* A multi-line token whose end column is before its start column, and a
\* one-line token of several characters after it.
C28_Witness ==
   \E i \in 1..(Len(tokens) - 1) :
      /\ tokens[i].span.end_line > tokens[i].span.start_line
      /\ tokens[i].span.end_col < tokens[i].span.start_col
      /\ is_one_line(tokens[i + 1].span)
      /\ Width(tokens[i + 1].span) >= 2


(***************************************************************************)
(* A Context whose consuming methods are called directly                   *)
(* (lexer.rs 119-199), as its tests call them                              *)
(***************************************************************************)
\* The texts: every text of up to MaxContextLen characters that are a
\* newline, a double quote or another character, and the example texts.
MaxContextLen == 4

ContextAlphabet == {"a", "\n", "\""}

ContextTexts ==
   UNION {[1..n -> ContextAlphabet] : n \in 0..MaxContextLen}
      \cup ExampleTexts

ContextInit ==
   /\ constructed = TRUE
   /\ input \in ContextTexts
   /\ source = Context_new(input).source
   /\ span = Context_new(input).span
   /\ eof_generated = Context_new(input).eof_generated
   /\ tokens = << >>
   /\ last = Called("new", << input >>, << >>)
   /\ calls = 0
   /\ none_reads = 0
   /\ dbg_held = TRUE

ContextFrame ==
   UNCHANGED << constructed, input, eof_generated, tokens, calls,
                none_reads, dbg_held >>

\* ctx.read_char()
ContextReadChar ==
   /\ source' = read_char(Ctx).ctx.source
   /\ span' = read_char(Ctx).ctx.span
   /\ last' = Called("read_char", << >>, read_char(Ctx).val)
   /\ ContextFrame

\* ctx.read_line()
ContextReadLine ==
   /\ source' = read_line(Ctx).ctx.source
   /\ span' = read_line(Ctx).ctx.span
   /\ last' = Called("read_line", << >>, << read_line(Ctx).val >>)
   /\ ContextFrame

\* ctx.read_string()
ContextReadString ==
   /\ source' = read_string(Ctx).ctx.source
   /\ span' = read_string(Ctx).ctx.span
   /\ last' = Called("read_string", << >>, read_string(Ctx).val)
   /\ ContextFrame

\* ctx.span.complete()
ContextComplete ==
   /\ span' = complete(span).self
   /\ last' = Called("complete", << >>, << complete(span).ret >>)
   /\ UNCHANGED source
   /\ ContextFrame

ContextNext ==
   \/ ContextReadChar
   \/ ContextReadLine
   \/ ContextReadString
   \/ ContextComplete

ContextSpec == ContextInit /\ [][ContextNext]_vars

(***************************************************************************)
(* C29.  The end of the accumulator is the position of the cursor.         *)
(***************************************************************************)
\* The characters consumed from the cursor so far.
Consumed == Take(input, Len(input) - Len(source))

\* The place in text of its last newline, 0 if it has none.
LastNewline(text) ==
   IF NewlinesOf(text) = {} THEN 0
   ELSE CHOOSE p \in NewlinesOf(text) : \A q \in NewlinesOf(text) : q <= p

\* C29: after any number of characters has been consumed from the cursor,
\* by any of read_char, read_line and read_string, the accumulator's
\* end_line is 1 plus the number of newlines consumed so far and its
\* end_col is the number of characters consumed since the last consumed
\* newline (or since the start if there is none).
C29_EndIsCursorPosition ==
   /\ source = Drop(input, Len(input) - Len(source))
   /\ span.end_line = 1 + Cardinality(NewlinesOf(Consumed))
   /\ span.end_col = Len(Consumed) - LastNewline(Consumed)

\* Two lines and a part of the third have been consumed, the last
\* characters by read_string.
C29_Witness ==
   /\ last.op = "read_string"
   /\ Cardinality(NewlinesOf(Consumed)) = 2
   /\ span.end_line = 3
   /\ span.end_col = 1
   /\ source # << >>

(***************************************************************************)
(* C30.  read_char.                                                        *)
(***************************************************************************)
\* C30: read_char on a cursor that is not exhausted returns the next
\* character in input order and grows the accumulator by exactly one
\* character; read_char on an exhausted cursor returns nothing and leaves
\* the accumulator unchanged.
C30_ReadChar ==
   /\ [][(last'.op = "read_char" /\ source # << >>) =>
            /\ last'.ret = << input[Len(input) - Len(source) + 1] >>
            /\ source' = Tail(source)
            /\ StartOf(span') = StartOf(span)
            /\ Offset(input, EndOf(span')) = Offset(input, EndOf(span)) + 1
            /\ last'.ret # << "\n" >> =>
                  EndOf(span') = << span.end_line, span.end_col + 1 >>
            /\ last'.ret = << "\n" >> =>
                  EndOf(span') = << span.end_line + 1, 0 >>]_vars
   /\ [][(last'.op = "read_char" /\ source = << >>) =>
            /\ last'.ret = << >>
            /\ source' = << >>
            /\ span' = span]_vars

\* A text of two lines has been read to its end by read_char, and read_char
\* called again.
C30_Witness ==
   /\ input = <<"a", "\n", "a">>
   /\ source = << >>
   /\ last.op = "read_char"
   /\ last.ret = << >>
   /\ span = [start_line |-> 1, start_col |-> 0, end_line |-> 2, end_col |-> 1]


(***************************************************************************)
(* C31.  The cursor moves forward only, one character of lookahead.        *)
(***************************************************************************)
\* The characters that start a token whose end is found by peeking.
RunStartChars ==
   OperatorChars \cup BlankChars \cup DigitChars \cup WordStartChars

RunKinds ==
   {"Bang", "BangEqual", "Equal", "EqualEqual", "Greater", "GreaterEqual",
    "Less", "LessEqual", "Whitespace", "Number", "Identifier"}
      \cup KeywordKinds

\* The number of characters of the token that starts text, for a text that
\* starts with one of RunStartChars.
RunEnd(text) ==
   IF Head(text) \in OperatorChars
   THEN (IF Len(text) >= 2 /\ text[2] = "=" THEN 2 ELSE 1)
   ELSE IF Head(text) \in BlankChars THEN RunLength(text, BlankChars)
   ELSE IF Head(text) \in DigitChars THEN NumberLength(text)
   ELSE RunLength(text, WordChars)

\* C31: the cursor is consumed monotonically with at most one character of
\* lookahead: no consumed character is ever returned to the cursor, and a
\* character that is only peeked (the one that ends an operator, a
\* whitespace, a number or an identifier run) is not consumed and is the
\* first character of the next token.
C31_CursorMovesForward ==
   /\ [][constructed =>
            \E k \in 0..Len(source) : source' = Drop(source, k)]_vars
   /\ [](constructed => source = Drop(input, Len(input) - Len(source)))
   /\ [][(ReadsFrom(RunStartChars) /\ GaveToken(last')) =>
            LET n == RunEnd(source)
            IN  /\ source' = Drop(source, n)
                /\ n < Len(source) => Head(source') = source[n + 1]
                /\ Covered(input, last'.ret[1].span) = Take(source, n)]_vars
   /\ [](\A i \in 1..(Len(tokens) - 1) :
            (Kind(tokens[i]) \in RunKinds /\ Kind(tokens[i + 1]) # "Eof") =>
               /\ Offset(input, StartOf(tokens[i + 1].span))
                     = Offset(input, EndOf(tokens[i].span))
               /\ Covered(input, tokens[i + 1].span) # << >>
               /\ Covered(input, tokens[i + 1].span)[1]
                     = input[Offset(input, EndOf(tokens[i].span)) + 1])

\* An identifier has been ended by a peeked '=', and the '=' scanned next.
C31_Witness ==
   /\ Len(tokens) >= 4
   /\ Kind(tokens[3]) = "Identifier"
   /\ Len(tokens[3].lexeme.text) = 8
   /\ Kind(tokens[4]) = "Equal"
   /\ StartOf(tokens[4].span) = EndOf(tokens[3].span)

(***************************************************************************)
(* C32.  Where a malformed number leaves the cursor.                       *)
(***************************************************************************)
\* C32: at the point a malformed number (digits, then '.', then no digit)
\* is detected, the cursor has consumed the digit run and the '.' and
\* nothing after it: the accumulator covers the digits plus the '.', and
\* the character that follows the '.' (if any) has only been peeked.
C32_MalformedNumberCursor ==
   [][(ReadsFrom(DigitChars) /\ DanglingDot(source)) =>
         LET n == RunLength(source, DigitChars)
         IN  /\ last'.panic # NoPanic
             /\ source' = Drop(source, n + 1)
             /\ StartOf(span') = EndOf(span)
             /\ EndOf(span') = << span.end_line, span.end_col + n + 1 >>
             /\ Covered(input, span') = Take(source, n + 1)]_vars

\* "1.o" has failed after the '.', with the 'o' still in the cursor.
C32_Witness ==
   /\ input = <<"1", ".", "o">>
   /\ Failed
   /\ source = <<"o">>
   /\ span = [start_line |-> 1, start_col |-> 0, end_line |-> 1, end_col |-> 2]


(***************************************************************************)
(* C33.  The kinds of failure.                                             *)
(***************************************************************************)
\* The first character of the token the scanner is in the middle of.
TokenStartChar == input[Offset(input, StartOf(span)) + 1]

\* What tells one failure of the scanner from another.
FailureClass(p) == p[1]

UnterminatedStringClass ==
   FailureClass(read(Context_new(<< CHAR_DOUBLE_QUOTE >>)).panic)

UnrecognizedCharacterClass ==
   FailureClass(read(Context_new(<< "@" >>)).panic)

\* C33: the three failure conditions are distinguishable by kind: an
\* unterminated string is its own kind, and a malformed number is reported
\* in the same class as an unrecognized character, not in the same class as
\* an unterminated string.
C33_FailureKinds ==
   Failed =>
      /\ TokenStartChar = CHAR_DOUBLE_QUOTE =>
            /\ FailureClass(last.panic) = UnterminatedStringClass
            /\ FailureClass(last.panic) # UnrecognizedCharacterClass
      /\ TokenStartChar \in DigitChars =>
            /\ FailureClass(last.panic) = UnrecognizedCharacterClass
            /\ FailureClass(last.panic) # UnterminatedStringClass
      /\ TokenStartChar \notin DigitChars \cup {CHAR_DOUBLE_QUOTE} =>
            FailureClass(last.panic) = UnrecognizedCharacterClass

(***************************************************************************)
(* C34.  A second '.' after a number.                                      *)
(***************************************************************************)
NumberLexeme(n, d) == Lexeme("Number", NoText, << [num |-> n, den |-> d] >>)

DottedExample == <<"1", ".", "2", ".", "3">>

DottedLexemes ==
   << NumberLexeme(6, 5), Plain("Dot"), NumberLexeme(3, 1), Plain("Eof") >>

TrailingDotExample == <<"1", ".", "2", ".">>

TrailingDotLexemes == << NumberLexeme(6, 5), Plain("Dot"), Plain("Eof") >>

\* The lexemes scanned so far are the first ones of the expected lexemes,
\* and all of them once that many calls have been made.
ScansAs(lexemes) ==
   /\ ~Failed
   /\ Len(tokens) = (IF calls < Len(lexemes) THEN calls ELSE Len(lexemes))
   /\ \A i \in 1..Len(tokens) : tokens[i].lexeme = lexemes[i]

\* C34: a '.' that follows a number which already has a fractional part is
\* not consumed by that number: "1.2.3" scans as Number(1.2), Dot, Number(3)
\* and "1.2." scans as Number(1.2), Dot, Eof without failure, whereas "12."
\* fails.
C34_SecondDot ==
   /\ [][(ReadsFrom(DigitChars) /\ GaveToken(last')) =>
            LET n == NumberLength(source)
            IN  (n > RunLength(source, DigitChars) /\ Len(source) > n
                    /\ source[n + 1] = CHAR_DOT)
                   => /\ source' # << >>
                      /\ Head(source') = CHAR_DOT
                      /\ Len(source') = Len(source) - n]_vars
   /\ [](input = DottedExample => ScansAs(DottedLexemes))
   /\ [](input = TrailingDotExample => ScansAs(TrailingDotLexemes))
   /\ []((input = <<"1", "2", ".">> /\ calls >= 1) => (Failed /\ tokens = << >>))

\* "1.2." has been scanned through to Eof.
C34_Witness ==
   /\ input = TrailingDotExample
   /\ Len(tokens) = 3
   /\ Kind(tokens[2]) = "Dot"
   /\ Kind(tokens[3]) = "Eof"
   /\ ~Failed

(***************************************************************************)
(* C35.  A comment that the end of the input ends.                         *)
(***************************************************************************)
HasNewline(text) == \E i \in 1..Len(text) : text[i] = CHAR_NEWLINE

\* C35: when a "//" comment is ended by the end of input rather than by a
\* newline, the Comment payload is all remaining characters with no
\* trailing newline (empty when "//" is the last text), its span is
\* one-line, the cursor is exhausted afterwards, and the next read()
\* returns Eof.
C35_CommentAtEndOfInput ==
   /\ [][(ReadsFrom({"/"}) /\ Len(source) >= 2 /\ source[2] = "/"
             /\ ~HasNewline(Drop(source, 2))) =>
            /\ GaveToken(last')
            /\ last'.ret[1].lexeme =
                  Lexeme("Comment", Drop(source, 2), NoValue)
            /\ (Len(source) = 2 => last'.ret[1].lexeme.text = << >>)
            /\ is_one_line(last'.ret[1].span)
            /\ Width(last'.ret[1].span) = Len(source)
            /\ source' = << >>]_vars
   /\ [][(calls' = calls + 1 /\ tokens # << >>
             /\ Kind(tokens[Len(tokens)]) = "Comment"
             /\ ~HasNewline(tokens[Len(tokens)].lexeme.text)) =>
            /\ GaveToken(last')
            /\ Kind(last'.ret[1]) = "Eof"]_vars

\* "//" alone has given an empty Comment and then Eof.
C35_Witness ==
   /\ input = <<"/", "/">>
   /\ Len(tokens) = 2
   /\ tokens[1].lexeme = Lexeme("Comment", << >>, NoValue)
   /\ Kind(tokens[2]) = "Eof"
   /\ source = << >>

(***************************************************************************)
(* C36.  A lone '/'.                                                       *)
(***************************************************************************)
\* C36: a '/' that is not immediately followed by a second '/' yields
\* exactly one Slash token with a one-line span of width 1, and the
\* character that follows it is left unconsumed.
C36_LoneSlash ==
   [][(ReadsFrom({"/"}) /\ (Len(source) = 1 \/ source[2] # "/")) =>
         /\ GaveToken(last')
         /\ tokens' = Append(tokens, last'.ret[1])
         /\ last'.ret[1].lexeme = Plain("Slash")
         /\ is_one_line(last'.ret[1].span)
         /\ Width(last'.ret[1].span) = 1
         /\ source' = Tail(source)]_vars

\* A Slash has been scanned with the character after it still in the cursor.
C36_Witness ==
   /\ Len(tokens) = 1
   /\ Kind(tokens[1]) = "Slash"
   /\ source # << >>
   /\ source = Tail(input)


(***************************************************************************)
(* C37.  read() returns nothing only after the Eof token.                  *)
(***************************************************************************)
\* C37: read() returns nothing only once the Eof token has been produced:
\* while eof_generated is false every read() that does not fail returns a
\* token, and the first read() on an exhausted cursor returns Eof rather
\* than nothing.
C37_NothingOnlyWhenDone ==
   /\ [][(calls' = calls + 1 /\ ~eof_generated /\ last'.panic = NoPanic) =>
            /\ GaveToken(last')
            /\ tokens' = Append(tokens, last'.ret[1])]_vars
   /\ [][(calls' = calls + 1 /\ ~eof_generated /\ source = << >>) =>
            /\ GaveToken(last')
            /\ Kind(last'.ret[1]) = "Eof"]_vars
   /\ [][(calls' = calls + 1 /\ last'.panic = NoPanic /\ last'.ret = << >>) =>
            eof_generated]_vars

\* The empty input gave Eof on the first call and nothing on the second.
C37_Witness ==
   /\ input = << >>
   /\ calls = 2
   /\ Len(tokens) = 1
   /\ Kind(tokens[1]) = "Eof"
   /\ ReturnedNone

(***************************************************************************)
(* C38.  read() after Eof changes nothing.                                 *)
(***************************************************************************)
\* C38: a read() call made after the Eof token changes nothing: the
\* accumulator span, the cursor position and eof_generated are all the same
\* afterwards.
C38_ReadAfterEofFrame ==
   [][(calls' = calls + 1 /\ eof_generated) =>
         /\ span' = span
         /\ source' = source
         /\ eof_generated' = eof_generated
         /\ tokens' = tokens
         /\ last'.ret = << >>
         /\ last'.panic = NoPanic]_vars

\* Two calls have been made after the Eof token of an input of several lines.
C38_Witness ==
   /\ eof_generated
   /\ none_reads = 2
   /\ span.end_line > 1
   /\ EmptySpan(span)

(***************************************************************************)
(* C39.  The widths of identifiers and keywords.                           *)
(***************************************************************************)
\* The width the Token constructor of each keyword asserts (token.rs 174-284).
KeywordWidth(kind) ==
   CASE kind = "And" -> 3 [] kind = "Class" -> 5 [] kind = "Else" -> 4
     [] kind = "False" -> 5 [] kind = "Fun" -> 3 [] kind = "For" -> 3
     [] kind = "If" -> 2 [] kind = "Nil" -> 3 [] kind = "Or" -> 2
     [] kind = "Print" -> 5 [] kind = "Return" -> 6 [] kind = "Super" -> 5
     [] kind = "This" -> 4 [] kind = "True" -> 4 [] kind = "Var" -> 3
     [] kind = "While" -> 5

\* C39: every Identifier or keyword token produced by scanning has a
\* one-line span whose width is the length of its text; a keyword's width is
\* the one its Token constructor asserts (and 3, class 5, else 4, false 5,
\* fun 3, for 3, if 2, nil 3, or 2, print 5, return 6, super 5, this 4,
\* true 4, var 3, while 5).
C39_WordWidths ==
   \A i \in 1..Len(tokens) :
      /\ Kind(tokens[i]) = "Identifier" =>
            /\ is_one_line(tokens[i].span)
            /\ Width(tokens[i].span) = Len(tokens[i].lexeme.text)
            /\ Covered(input, tokens[i].span) = tokens[i].lexeme.text
      /\ Kind(tokens[i]) \in KeywordKinds =>
            /\ is_one_line(tokens[i].span)
            /\ Width(tokens[i].span) = KeywordWidth(Kind(tokens[i]))
            /\ Len(Covered(input, tokens[i].span))
                  = KeywordWidth(Kind(tokens[i]))

\* The example declaration has given var, 3 wide, and language, 8 wide.
C39_Witness ==
   /\ Len(tokens) >= 3
   /\ Kind(tokens[1]) = "Var"
   /\ Width(tokens[1].span) = 3
   /\ Kind(tokens[3]) = "Identifier"
   /\ Width(tokens[3].span) = 8


(***************************************************************************)
(* The keyword lookup on its own: the search of mk_identifier_or_keyword   *)
(* (lexer.rs 626) applied once to a text.                                  *)
(***************************************************************************)
MaxSearchLen == 3

SearchAlphabet == {"a", "f", "i", "o", "r", "u", "_"}

\* The texts looked up: the sixteen keyword texts, each of them cut short,
\* extended and in upper case at the front, and every short text over a few
\* letters ("or", "if", "for" and "fun" are among these).
SearchTexts ==
   LET keys == DOMAIN SixteenKeywords
   IN  keys
       \cup {Take(k, Len(k) - 1) : k \in keys}
       \cup {Tail(k) : k \in keys}
       \cup {Append(k, "s") : k \in keys}
       \cup {Append(k, "_") : k \in keys}
       \cup {<< "_" >> \o k : k \in keys}
       \cup {<< "A" >> \o Tail(k) : k \in keys}
       \cup UNION {[1..n -> SearchAlphabet] : n \in 0..MaxSearchLen}

KeywordInit ==
   /\ NoContext
   /\ span = SpanDefault
   /\ tokens = << >>
   /\ last = NoCall
   /\ calls = 0
   /\ dbg_held = TRUE

\* KEYWORDS.binary_search_by_key(&text, |(k, _)| k)
KeywordSearch ==
   /\ last = NoCall
   /\ \E text \in SearchTexts :
         last' = Called("binary_search_by_key", << text >>,
                        << binary_search_by_key(KEYWORDS, text) >>)
   /\ calls' = calls + 1
   /\ UNCHANGED << constructed, input, source, span, eof_generated, tokens,
                   none_reads, dbg_held >>

KeywordNext == KeywordSearch

KeywordSpec == KeywordInit /\ [][KeywordNext]_vars

(***************************************************************************)
(* C40.  The keyword table and its search.                                 *)
(***************************************************************************)
\* a comes before b in the lexicographic order of their characters.
LexLess(a, b) ==
   \E k \in 1..(Len(b)) :
      /\ k <= Len(a) + 1
      /\ \A i \in 1..(k - 1) : a[i] = b[i]
      /\ k = Len(a) + 1 \/ Ord(a[k]) < Ord(b[k])

\* C40: the keyword table is in strictly ascending lexicographic order with
\* no duplicate entry, so that the exact-match binary search returns a hit
\* for each of the sixteen keyword texts, at the entry of that keyword, and
\* a miss for every other text.
C40_KeywordTable ==
   /\ Len(KEYWORDS) = 16
   /\ \A i \in 1..(Len(KEYWORDS) - 1) :
         LexLess(KEYWORDS[i][1], KEYWORDS[i + 1][1])
   /\ \A i, j \in 1..Len(KEYWORDS) :
         i # j => KEYWORDS[i][1] # KEYWORDS[j][1]
   /\ last.op = "binary_search_by_key" =>
         LET text == last.args[1]
             found == last.ret[1]
         IN  /\ found.ok <=> text \in DOMAIN SixteenKeywords
             /\ found.ok =>
                   /\ found.index \in 0..(Len(KEYWORDS) - 1)
                   /\ KEYWORDS[found.index + 1][1] = text
                   /\ KEYWORDS[found.index + 1][2] = SixteenKeywords[text]

\* "for" has been looked up and found at the fifth entry.
C40_Witness ==
   /\ last.op = "binary_search_by_key"
   /\ last.args = << <<"f", "o", "r">> >>
   /\ last.ret[1].ok
   /\ last.ret[1].index = 4

====
